---- MODULE Spec2Model ----
(***************************************************************************)
(* Real-time family coordination core of famemely/backend: the socket      *)
(* gateway (websocket.gateway.ts), the cache layer (cache.service.ts), the *)
(* location service (location.service.ts), the ghost-mode service          *)
(* (ghost-mode.service.ts) and the Redis wrapper (redis.service.ts).       *)
(*                                                                         *)
(* One server instance.  Every handler is one atomic action (the whole     *)
(* async method, with the cache reads, writes and deletes it awaits).  The *)
(* Redis commands of the main client answer; the failures the code handles *)
(* explicitly (repository error, XADD failure, PUBLISH failure) are inputs *)
(* of the actions.                                                         *)
(***************************************************************************)
EXTENDS Integers, Sequences, FiniteSets, TLC

\* ------------------------------------------------------------------ domains

Users == {"u1", "u2"}
Families == {"fA", "fB"}
Sockets == {"s1", "s2", "s3"}

\* the family_id strings a client can submit: the ids of the families, and one
\* string with a colon in it (the DTO asks for @IsString() and nothing more)
FamilyIds == Families \cup {"fA:x"}

\* socket slot not connected / payload field absent
None == "none"

\* the user id POST /location/update falls back to (no guard sets req.user)
Anonymous == "anonymous"
NoFamily == "none"

\* coordinates in millidegrees, accuracy in metres (spec scenarios 1 and 2)
Coords == {<<12971, 77594>>, <<40000, -74000>>}
Accuracies == {8}

\* longest family log the model builds, largest history limit it asks for
MaxLog == 2
MaxLimit == 2

\* entries CacheService.getLastLocation reads from the beginning of a log
\* (100 in the code), scaled to the logs of the model
ScanCount == 1

\* the cap RedisService.trimStream trims a log to (10000 in the code), scaled
\* to the logs of the model
maxLen == 1

\* most published messages awaiting delivery
MaxBus == 1

\* most async calls awaiting a reply at once, most stepwise requests in a run
MaxFlight == 2
MaxArrivals == 3

\* accuracy that maskLocation reports, bounds of its offset in millidegrees
MaskAccuracy == 1000
MaskMin == 5
MaskMax == 10

VARIABLES
    cacheEnabled,    \* CacheService.cacheEnabled (CACHE_ENABLED !== 'false')
    repoMembers,     \* repository table family_members: set of <<user, family>>
    repoDeleted,     \* families whose rows the repository has deleted for good
    repoGhostGlobal, \* repository table user_ghost_mode: users with enabled
    repoGhostFamily, \* repository table family_ghost_mode: <<user, family>> enabled
    cache,           \* the Redis keys of the cache layer, one field per key family
    log,             \* Redis streams locations:family:<f>: family -> Seq(entry)
    bus,             \* published messages not yet delivered to this instance
    sockUser,        \* socket -> AuthenticatedSocket.userId, None when not open
    sockFamilies,    \* socket -> AuthenticatedSocket.familyIds
    rooms,           \* socket -> families f whose room family:<f> it has joined
    connectedUsers,  \* gateway's connectedUsers: user -> set of socket ids
    emits,           \* what the last step emitted to sockets, in order
    last,            \* the last request handled and its acknowledgment
    tick,            \* flips on every handled request or delivery
    deletedAck,      \* history: families with a family_deleted acked success
    roomAtDeletion,  \* history: family -> sockets in its room when it was acked
    authAfterDel,    \* history: socket -> families deleted before it authenticated
    flight,          \* async calls that have started and await a reply
    clock,           \* number of requests that have arrived so far
    addedAck,        \* history: <<v, f>> whose user_added_to_family was acked
                     \* with success while the repository held the row
    appendOrder,     \* history: family -> the stepwise ingests (arrival number,
                     \* user, sample) in the order their entries were appended
    subscribed,      \* the pattern subscriptions of this instance are active
    forceLeft,       \* history: socket -> families whose room a removal or a deletion
                     \* made it leave since it opened
    handshake,       \* history: socket -> the handshake it last connected with
    subscribers,     \* RedisService.subscribers: channel -> whether the map has
                     \* the key, and the callbacks of its Set in insertion order
    backend,         \* channels the subscriber connection is subscribed to
    completed        \* history: <<channel, callback>> whose subscribe has
                     \* returned and whose unsubscribe has not been called

vars == <<cacheEnabled, repoMembers, repoDeleted, repoGhostGlobal, repoGhostFamily,
          cache, log, bus, sockUser, sockFamilies, rooms, connectedUsers,
          emits, last, tick, deletedAck, roomAtDeletion, authAfterDel,
          flight, clock, addedAck, appendOrder, subscribed, handshake,
          subscribers, backend, completed, forceLeft>>

repoVars == <<repoMembers, repoDeleted, repoGhostGlobal, repoGhostFamily>>
sockVars == <<sockUser, sockFamilies, rooms, connectedUsers>>
histVars == <<deletedAck, roomAtDeletion, authAfterDel>>
chanVars == <<subscribers, backend, completed>>
subVars == <<subscribed, chanVars, forceLeft>>
flightVars == <<flight, clock, subVars>>
noteVars == <<addedAck, appendOrder, handshake>>

\* ------------------------------------------------------------------ helpers

RECURSIVE SeqOfSet(_)
\* the elements of a finite set as a sequence (the iteration order of a list)
SeqOfSet(S) ==
    IF S = {} THEN <<>>
    ELSE LET x == CHOOSE y \in S : TRUE IN <<x>> \o SeqOfSet(S \ {x})

RECURSIVE FlatMap(_, _)
\* concatenation of Op-free sequences: FlatMap(<<a, b>>, f) = f[a] \o f[b]
FlatMap(seq, f) ==
    IF seq = <<>> THEN <<>> ELSE f[Head(seq)] \o FlatMap(Tail(seq), f)

Range(seq) == {seq[i] : i \in 1..Len(seq)}

\* ------------------------------------------------------------------ cache keys
\* cache.members[f]   family:<f>:members             {} absent, {S} holding S
\* cache.families[u]  user:<u>:families              {} absent, {S} holding S
\* cache.geofence     geofence:<f>                   families whose key exists
\* cache.role         user:<u>:family:<f>:role       <<u, f>> whose key exists
\* cache.lastLoc[u,f] user:<u>:family:<f>:last_location  {} absent, {loc}
\* cache.online       user:<u>:family:<f>:online     <<u, f>> whose key exists
\* cache.ghostGlobal[u]    ghost:global:<u>          "nil" absent, "1", "0"
\* cache.ghostFamily[f,u]  ghost:family:<f>:<u>      "nil" absent, "1", "0"

EmptyCache ==
    [members |-> [f \in Families |-> {}],
     families |-> [u \in Users |-> {}],
     geofence |-> {},
     role |-> {},
     lastLoc |-> [p \in (Users \cup {Anonymous}) \X FamilyIds |-> {}],
     online |-> {},
     ghostGlobal |-> [u \in Users |-> "nil"],
     ghostFamily |-> [p \in Families \X Users |-> "nil"]]

\* RedisService.del(key): the key is gone afterwards
del(c, key) ==
    CASE key[1] = "members" -> [c EXCEPT !.members[key[2]] = {}]
      [] key[1] = "families" -> [c EXCEPT !.families[key[2]] = {}]
      [] key[1] = "geofence" -> [c EXCEPT !.geofence = @ \ {key[2]}]
      [] key[1] = "role" -> [c EXCEPT !.role = @ \ {<<key[2], key[3]>>}]
      [] key[1] = "last_location" -> [c EXCEPT !.lastLoc[<<key[2], key[3]>>] = {}]
      [] key[1] = "online" -> [c EXCEPT !.online = @ \ {<<key[2], key[3]>>}]
      [] key[1] = "ghost_global" -> [c EXCEPT !.ghostGlobal[key[2]] = "nil"]
      [] key[1] = "ghost_family" -> [c EXCEPT !.ghostFamily[<<key[2], key[3]>>] = "nil"]

\* whether the key exists in Redis
exists(c, key) ==
    CASE key[1] = "members" -> c.members[key[2]] # {}
      [] key[1] = "families" -> c.families[key[2]] # {}
      [] key[1] = "geofence" -> key[2] \in c.geofence
      [] key[1] = "role" -> <<key[2], key[3]>> \in c.role
      [] key[1] = "last_location" -> c.lastLoc[<<key[2], key[3]>>] # {}
      [] key[1] = "online" -> <<key[2], key[3]>> \in c.online
      [] key[1] = "ghost_global" -> c.ghostGlobal[key[2]] # "nil"
      [] key[1] = "ghost_family" -> c.ghostFamily[<<key[2], key[3]>>] # "nil"

RECURSIVE delAll(_, _)
\* a batch of del commands (Promise.all over deletePromises)
delAll(c, keys) ==
    IF keys = {} THEN c
    ELSE LET k == CHOOSE x \in keys : TRUE IN delAll(del(c, k), keys \ {k})

\* ------------------------------------------------------------------ cache layer

\* CacheService.getUserFamilyIds: the ids returned (repoOk: the query answered)
getUserFamilyIds(c, u, repoOk) ==
    IF cacheEnabled /\ c.families[u] # {}
    THEN CHOOSE S \in c.families[u] : TRUE
    ELSE IF ~repoOk THEN {}
    ELSE {f \in Families : <<u, f>> \in repoMembers}

\* CacheService.getUserFamilyIds: the cache it leaves (a non-empty answer is cached)
getUserFamilyIdsCache(c, u, repoOk) ==
    IF cacheEnabled /\ c.families[u] # {} THEN c
    ELSE IF ~repoOk THEN c
    ELSE LET ids == {f \in Families : <<u, f>> \in repoMembers}
         IN IF cacheEnabled /\ ids # {}
            THEN [c EXCEPT !.families[u] = {ids}]
            ELSE c

\* the read with the test of cacheEnabled left out
getFamilyMembersIgnoringFlag(c, f, repoOk) ==
    IF c.members[f] # {}
    THEN CHOOSE S \in c.members[f] : TRUE
    ELSE IF ~repoOk THEN {}
    ELSE {u \in Users : <<u, f>> \in repoMembers}

\* CacheService.getFamilyMembers: the member user ids returned
getFamilyMembers(c, f, repoOk) ==
    IF cacheEnabled /\ c.members[f] # {}
    THEN CHOOSE S \in c.members[f] : TRUE
    ELSE IF ~repoOk THEN {}
    ELSE {u \in Users : <<u, f>> \in repoMembers}

\* the read-through that also caches the empty result of a failed load
getFamilyMembersCacheOnError(c, f, repoOk) ==
    IF cacheEnabled /\ c.members[f] # {} THEN c
    ELSE IF cacheEnabled
         THEN [c EXCEPT !.members[f] =
                 {IF repoOk THEN {u \in Users : <<u, f>> \in repoMembers} ELSE {}}]
         ELSE c

\* CacheService.getFamilyMembers: the cache it leaves (any answer, even [], is cached)
getFamilyMembersCache(c, f, repoOk) ==
    IF cacheEnabled /\ c.members[f] # {} THEN c
    ELSE IF ~repoOk THEN c
    ELSE IF cacheEnabled
         THEN [c EXCEPT !.members[f] = {{u \in Users : <<u, f>> \in repoMembers}}]
         ELSE c

\* CacheService.setOnlineStatus
setOnlineStatus(c, u, f, isOnline) ==
    IF ~cacheEnabled THEN c
    ELSE IF isOnline THEN [c EXCEPT !.online = @ \cup {<<u, f>>}]
    ELSE del(c, <<"online", u, f>>)

\* CacheService.getOnlineStatus
getOnlineStatus(c, u, f) ==
    IF cacheEnabled THEN exists(c, <<"online", u, f>>) ELSE FALSE

RECURSIVE setOnlineAll(_, _, _, _)
\* setOnlineStatus for each family of a list (the loops of connect and disconnect)
setOnlineAll(c, u, fams, isOnline) ==
    IF fams = {} THEN c
    ELSE LET f == CHOOSE x \in fams : TRUE
         IN setOnlineAll(setOnlineStatus(c, u, f, isOnline), u, fams \ {f}, isOnline)

\* ------------------------------------------------------------------ emissions

\* a sample is <<latitude, longitude, accuracy, batteryLevel>>: coordinates in
\* millidegrees, the battery level as its decimal literal; NoBattery is a
\* sample that carries no batteryLevel
NoBattery == "undefined"

NoLoc == <<0, 0, 0, NoBattery>>

\* one server.to(...).emit(event, payload): `to` are the sockets that get it
Emit(event, room, user, fam, status, loc, to) ==
    [event |-> event, room |-> room, user |-> user, fam |-> fam,
     status |-> status, loc |-> loc, to |-> to]

\* sockets that have joined room family:<f> (server.to(`family:${f}`))
RoomSockets(rm, f) == {s \in Sockets : f \in rm[s]}

Ack(verb, s, f, target, ok, error) ==
    [verb |-> verb, sock |-> s, fam |-> f, target |-> target,
     ok |-> ok, error |-> error, loc |-> NoLoc]

\* ------------------------------------------------------------------ gateway: sessions

\* handleConnection: token absent or invalid, or the handler failed: disconnect
rejectConnection(s) ==
    /\ sockUser[s] = None
    /\ last' = Ack("connect", s, NoFamily, None, FALSE, "none")
    /\ emits' = <<>>
    /\ tick' = 1 - tick
    /\ UNCHANGED <<cacheEnabled, repoVars, cache, log, bus, sockVars, histVars>>

\* a connection that handleConnection disconnects
ConnectRejected(s) ==
    /\ rejectConnection(s)
    /\ UNCHANGED <<flightVars, noteVars>>

\* handleConnection with a token that verifies as user u
acceptConnection(s, u, repoOk) ==
    /\ sockUser[s] = None
    /\ LET fams == getUserFamilyIds(cache, u, repoOk)
           c1 == getUserFamilyIdsCache(cache, u, repoOk)
           rm == [rooms EXCEPT ![s] = fams]
       IN /\ sockUser' = [sockUser EXCEPT ![s] = u]
          /\ sockFamilies' = [sockFamilies EXCEPT ![s] = fams]
          /\ connectedUsers' = [connectedUsers EXCEPT ![u] = @ \cup {s}]
          /\ rooms' = rm
          /\ cache' = setOnlineAll(c1, u, fams, TRUE)
          /\ emits' = FlatMap(SeqOfSet(fams),
                   [f \in Families |->
                      <<Emit("presence_update", f, u, f, "online", NoLoc,
                             RoomSockets(rm, f))>>])
                 \o <<Emit("connected", NoFamily, u, NoFamily, "-", NoLoc, {s})>>
          /\ authAfterDel' = [authAfterDel EXCEPT ![s] = deletedAck \cap repoDeleted]
    /\ last' = Ack("connect", s, NoFamily, u, TRUE, "none")
    /\ tick' = 1 - tick
    /\ UNCHANGED <<cacheEnabled, repoVars, log, bus, deletedAck, roomAtDeletion>>

\* a connection that handleConnection accepts as user u
Connect(s, u, repoOk) ==
    /\ acceptConnection(s, u, repoOk)
    /\ UNCHANGED <<flightVars, noteVars>>

\* handleDisconnect: the socket has already left its rooms when it runs
Disconnect(s) ==
    /\ sockUser[s] # None
    /\ LET u == sockUser[s]
           userSockets == connectedUsers[u] \ {s}
           rm == [rooms EXCEPT ![s] = {}]
           lastOne == userSockets = {}
       IN /\ connectedUsers' = [connectedUsers EXCEPT ![u] = userSockets]
          /\ rooms' = rm
          /\ cache' = IF lastOne
                      THEN setOnlineAll(cache, u, sockFamilies[s], FALSE)
                      ELSE cache
          /\ emits' = IF lastOne
                      THEN FlatMap(SeqOfSet(sockFamilies[s]),
                             [f \in Families |->
                                <<Emit("presence_update", f, u, f, "offline", NoLoc,
                                       RoomSockets(rm, f))>>])
                      ELSE <<>>
          /\ last' = Ack("disconnect", s, NoFamily, u, TRUE, "none")
    /\ sockUser' = [sockUser EXCEPT ![s] = None]
    /\ sockFamilies' = [sockFamilies EXCEPT ![s] = {}]
    /\ authAfterDel' = [authAfterDel EXCEPT ![s] = {}]
    /\ roomAtDeletion' = [f \in Families |-> roomAtDeletion[f] \ {s}]
    /\ forceLeft' = [forceLeft EXCEPT ![s] = {}]
    /\ tick' = 1 - tick
    /\ UNCHANGED <<cacheEnabled, repoVars, log, bus, deletedAck>>
    /\ UNCHANGED <<flight, clock, subscribed, chanVars, noteVars>>

\* the membership test answering yes for every family
includesFamilyAlways(s, f) == f \in Families

\* client.familyIds.includes(family_id): the authorization of every family verb
includesFamily(s, f) == f \in sockFamilies[s]

\* handleJoinFamily
JoinFamily(s, f) ==
    /\ sockUser[s] # None
    /\ IF ~includesFamily(s, f)
       THEN /\ last' = Ack("join_family", s, f, None, FALSE,
                           "Unauthorized family access")
            /\ emits' = <<>>
            /\ UNCHANGED <<rooms, cache>>
       ELSE LET u == sockUser[s]
                rm == [rooms EXCEPT ![s] = @ \cup {f}]
            IN /\ rooms' = rm
               /\ cache' = setOnlineStatus(cache, u, f, TRUE)
               /\ emits' = <<Emit("presence_update", f, u, f, "online", NoLoc,
                                  RoomSockets(rm, f))>>
               /\ last' = Ack("join_family", s, f, None, TRUE, "none")
    /\ tick' = 1 - tick
    /\ UNCHANGED <<cacheEnabled, repoVars, log, bus, sockUser, sockFamilies,
                   connectedUsers, histVars>>
    /\ UNCHANGED <<flightVars, noteVars>>

\* handleLeaveFamily: no authorization, the online key is cleared unconditionally
LeaveFamily(s, f) ==
    /\ sockUser[s] # None
    /\ LET u == sockUser[s]
           rm == [rooms EXCEPT ![s] = @ \ {f}]
       IN /\ rooms' = rm
          /\ cache' = setOnlineStatus(cache, u, f, FALSE)
          /\ emits' = <<Emit("presence_update", f, u, f, "offline", NoLoc,
                             RoomSockets(rm, f))>>
    /\ last' = Ack("leave_family", s, f, None, TRUE, "none")
    /\ tick' = 1 - tick
    /\ UNCHANGED <<cacheEnabled, repoVars, log, bus, sockUser, sockFamilies,
                   connectedUsers, histVars>>
    /\ UNCHANGED <<flightVars, noteVars>>

\* ------------------------------------------------------------------ JavaScript values

\* a JavaScript value: its type and its literal
Value(type, literal) == [t |-> type, v |-> literal]
Null == Value("null", "null")

\* the decimal literals of the model
Numerals == {"0", "1", "55", "78", "100"}

\* JSON.parse of a stored payload: a payload of digits parses to a number, any
\* other payload of the model is not JSON and is returned as the string it is
jsonParse(payload) ==
    IF payload \in Numerals THEN Value("number", payload)
    ELSE Value("string", payload)

\* RedisService.get of a key whose stored payload is given ("nil": no key)
get(payload) == IF payload = "nil" THEN Null ELSE jsonParse(payload)

\* the === of JavaScript: same type and same value
strictEquals(a, b) == a.t = b.t /\ a.v = b.v

\* !v of JavaScript: null, undefined, the empty string and the number 0
falsy(v) ==
    \/ v.t \in {"null", "undefined"}
    \/ (v.t = "string" /\ v.v = "")
    \/ (v.t = "number" /\ v.v = "0")

\* ------------------------------------------------------------------ location service

\* the record processLocationUpdate appends to locations:family:<f>; the id is
\* the stream's next monotonic id (XADD with '*'; the code never trims)
LogEntry(lg, u, f, loc) ==
    [id |-> Len(lg[f]) + 1, user_id |-> u, family_id |-> f, loc |-> loc]

\* String.split(':') of a family_id
split(f) == IF f = "fA:x" THEN <<"fA", "x">> ELSE <<f>>

\* the payload processLocationUpdate publishes on `family:${family_id}:location`
\* (the channel is kept as its ':'-separated segments): the submitted coordinates
LocationMessage(u, f, loc) ==
    [channel |-> <<"family">> \o split(f) \o <<"location">>,
     user |-> u, fam |-> f, loc |-> loc]

\* CacheService.setLastLocation
setLastLocation(c, u, f, loc) ==
    IF cacheEnabled THEN [c EXCEPT !.lastLoc[<<u, f>>] = {loc}] ELSE c

\* GhostModeService.maskLocation: a random offset of 0.005 to 0.010 degrees at a
\* random angle (dx, dy in millidegrees), and accuracy 1000
maskLocation(loc, dx, dy) == <<loc[1] + dx, loc[2] + dy, MaskAccuracy>>

\* the offsets maskLocation can draw
MaskOffsets ==
    {d \in (-MaskMax..MaskMax) \X (-MaskMax..MaskMax) :
        /\ d[1] * d[1] + d[2] * d[2] >= MaskMin * MaskMin
        /\ d[1] * d[1] + d[2] * d[2] <= MaskMax * MaskMax}

\* the ingest with the latest-location write moved before the XADD
processLocationUpdateCacheFirst(u, f, loc, appendOk, publishOk) ==
    /\ cache' = setLastLocation(cache, u, f, loc)
    /\ IF ~appendOk
       THEN UNCHANGED <<log, bus>>
       ELSE /\ log' = [log EXCEPT ![f] = Append(@, LogEntry(log, u, f, loc))]
            /\ bus' = IF publishOk THEN bus \cup {LocationMessage(u, f, loc)} ELSE bus

\* LocationService.processLocationUpdate: XADD, then setLastLocation, then PUBLISH;
\* an XADD failure throws before anything is written, a PUBLISH failure throws
\* after the log and the cache were written
processLocationUpdate(u, f, loc, appendOk, publishOk) ==
    IF ~appendOk
    THEN UNCHANGED <<log, cache, bus>>
    ELSE /\ log' = [log EXCEPT ![f] = Append(@, LogEntry(log, u, f, loc))]
         /\ cache' = setLastLocation(cache, u, f, loc)
         /\ bus' = IF publishOk THEN bus \cup {LocationMessage(u, f, loc)} ELSE bus

\* RedisService.parseStreamResults: a message is the entry's id and its stored
\* fields, each put through JSON.parse; a field the entry does not have is
\* undefined on the message
parseStreamResults(e) ==
    [id |-> e.id, user_id |-> e.user_id, family_id |-> e.family_id, loc |-> e.loc,
     batteryLevel |-> IF e.loc[4] = NoBattery THEN Value("undefined", "undefined")
                      ELSE jsonParse(e.loc[4])]

\* RedisService.readStream: XREAD COUNT count STREAMS key lastId returns the first
\* `count` entries whose id is greater than lastId (0 stands for '-', the beginning)
readStream(lg, f, count, lastId) ==
    LET after == SelectSeq(lg[f], LAMBDA e : e.id > lastId)
        read == SubSeq(after, 1, IF Len(after) < count THEN Len(after) ELSE count)
    IN [i \in 1..Len(read) |-> parseStreamResults(read[i])]

\* RedisService.trimStream: XTRIM MAXLEN ~ maxLen keeps the newest entries. No
\* service and no handler calls it
trimStream(lg, f) ==
    [lg EXCEPT ![f] = IF Len(@) > maxLen THEN SubSeq(@, Len(@) - maxLen + 1, Len(@))
                      ELSE @]

\* parseInt(msg.batteryLevel || '100'): the literal of the integer
parseBatteryLevel(msg) ==
    IF falsy(msg.batteryLevel) THEN "100" ELSE msg.batteryLevel.v

\* the location built from a message of the log: parseFloat and parseInt of
\* the numbers JSON.parse made are those numbers; the battery level is
\* parseInt(msg.batteryLevel || '100')
decodeLocation(msg) ==
    [id |-> msg.id, user_id |-> msg.user_id, family_id |-> msg.family_id,
     loc |-> <<msg.loc[1], msg.loc[2], msg.loc[3], parseBatteryLevel(msg)>>]

\* LocationService.getLocationHistory: the range is read first, the filter by
\* user is applied to what was read
getLocationHistory(lg, f, u, limit, lastId) ==
    LET messages == readStream(lg, f, limit, lastId)
        filtered == IF u = None THEN messages
                    ELSE SelectSeq(messages, LAMBDA m : m.user_id = u)
    IN [locations |-> [i \in 1..Len(filtered) |-> decodeLocation(filtered[i])],
        lastId |-> IF Len(filtered) > 0 THEN filtered[Len(filtered)].id ELSE lastId]

\* CacheService.getLastLocation(u, f): the location returned (NoLoc for null).
\* A cached entry is returned as it is; otherwise the first ScanCount entries
\* of the log are read from its beginning and the last of them that is u's
\* is decoded; a failed read is caught and answered with null
getLastLocation(c, lg, u, f, readOk) ==
    IF cacheEnabled /\ c.lastLoc[<<u, f>>] # {}
    THEN CHOOSE l \in c.lastLoc[<<u, f>>] : TRUE
    ELSE LET messages == readStream(lg, f, ScanCount, 0)
             userMessages == SelectSeq(messages, LAMBDA m : m.user_id = u)
         IN IF readOk /\ Len(userMessages) > 0
            THEN decodeLocation(userMessages[Len(userMessages)]).loc
            ELSE NoLoc

\* the cache after CacheService.getLastLocation(u, f): a location recovered
\* from the log is written to the key when the cache is enabled
getLastLocationCache(c, lg, u, f, readOk) ==
    LET location == getLastLocation(c, lg, u, f, readOk)
    IN IF cacheEnabled /\ c.lastLoc[<<u, f>>] = {} /\ location # NoLoc
       THEN [c EXCEPT !.lastLoc[<<u, f>>] = {location}]
       ELSE c

\* the check with the membership test forgotten
locationAuthorizedAnyFamily(s, f) == f # NoFamily

\* family_id missing, or not among the socket's familyIds (gateway line 180)
locationAuthorized(s, f) == f # NoFamily /\ f \in sockFamilies[s]

\* handleLocationUpdate: the ack is {success, timestamp}, never an error text
LocationUpdate(s, f, loc, appendOk, publishOk) ==
    /\ sockUser[s] # None
    /\ IF ~locationAuthorized(s, f)
       THEN /\ UNCHANGED <<log, cache, bus>>
            /\ last' = [Ack("location_update", s, f, sockUser[s], FALSE, "none")
                           EXCEPT !.loc = loc]
       ELSE /\ Len(log[f]) < MaxLog
            /\ processLocationUpdate(sockUser[s], f, loc, appendOk, publishOk)
            /\ last' = [Ack("location_update", s, f, sockUser[s],
                            appendOk /\ publishOk, "none") EXCEPT !.loc = loc]
    /\ emits' = <<>>
    /\ tick' = 1 - tick
    /\ UNCHANGED <<cacheEnabled, repoVars, sockVars, histVars>>
    /\ UNCHANGED <<flightVars, noteVars>>

\* POST /location/update: LocationController.updateLocation, no family check;
\* the sample is stored under req.user?.sub || req.user?.userId || 'anonymous'
RestUpdateLocation(f, loc, appendOk, publishOk) ==
    /\ Len(log[f]) < MaxLog
    /\ processLocationUpdate(Anonymous, f, loc, appendOk, publishOk)
    /\ last' = [Ack("rest_location_update", None, f, Anonymous,
                    appendOk /\ publishOk, "none") EXCEPT !.loc = loc]
    /\ emits' = <<>>
    /\ tick' = 1 - tick
    /\ UNCHANGED <<cacheEnabled, repoVars, sockVars, histVars>>
    /\ UNCHANGED <<flightVars, noteVars>>

\* GET /location/user/:userId/family/:familyId: LocationService.getUserLocation
\* answers with what CacheService.getLastLocation returns; a failed read of the
\* log is logged there and answered like a user without a location
GetUserLocation(u, f, readOk) ==
    /\ cache' = getLastLocationCache(cache, log, u, f, readOk)
    /\ last' = [Ack("user_location", None, f, u, TRUE,
                    IF readOk THEN "none" ELSE "logged")
                   EXCEPT !.loc = getLastLocation(cache, log, u, f, readOk)]
    /\ emits' = <<>>
    /\ tick' = 1 - tick
    /\ UNCHANGED <<cacheEnabled, repoVars, log, bus, sockVars, histVars, flightVars,
                   noteVars>>

\* the 5 minutes of user:<u>:family:<f>:last_location are over: Redis drops the key
LastLocationExpires(u, f) ==
    /\ cache.lastLoc[<<u, f>>] # {}
    /\ cache' = del(cache, <<"last_location", u, f>>)
    /\ UNCHANGED <<cacheEnabled, repoVars, log, bus, sockVars, emits, last, tick,
                   histVars, flightVars, noteVars>>

\* the answer of GET /location/history: the request and {locations, lastId}
AckHistory(f, u, limit, lastId, r) ==
    [verb |-> "history", sock |-> None, fam |-> f, target |-> u, ok |-> TRUE,
     error |-> "none", loc |-> NoLoc, limit |-> limit, afterId |-> lastId,
     locations |-> r.locations, lastId |-> r.lastId]

\* GET /location/history?family_id&user_id&limit&lastId:
\* LocationController.getLocationHistory, LocationService.getLocationHistory
History(f, u, limit, lastId) ==
    /\ last' = AckHistory(f, u, limit, lastId, getLocationHistory(log, f, u, limit, lastId))
    /\ emits' = <<>>
    /\ tick' = 1 - tick
    /\ UNCHANGED <<cacheEnabled, repoVars, cache, log, bus, sockVars, histVars,
                   flightVars, noteVars>>

\* the client continues a history from the cursor the last answer gave it
HistoryNext ==
    /\ last.verb = "history"
    /\ History(last.fam, last.target, last.limit, last.lastId)

\* handlePing
Ping(s) ==
    /\ sockUser[s] # None
    /\ emits' = <<Emit("pong", NoFamily, None, NoFamily, "-", NoLoc, {s})>>
    /\ last' = Ack("ping", s, NoFamily, None, TRUE, "none")
    /\ tick' = 1 - tick
    /\ UNCHANGED <<cacheEnabled, repoVars, cache, log, bus, sockVars, histVars>>
    /\ UNCHANGED <<flightVars, noteVars>>

\* ------------------------------------------------------------------ bus dispatcher

\* channel.split(':')[1]
channelId(channel) == channel[2]

\* the glob pattern family:*:location, family:*:alerts or user:*:notifications
\* (the * of a Redis pattern matches colons too)
matches(channel, first, lastSeg) ==
    Len(channel) >= 3 /\ channel[1] = first /\ channel[Len(channel)] = lastSeg

\* setupRedisSubscriptions: what the three pattern callbacks emit for a message
dispatch(m) ==
    IF matches(m.channel, "family", "location")
    THEN <<Emit("location_update", channelId(m.channel), m.user, m.fam, "-", m.loc,
                RoomSockets(rooms, channelId(m.channel)))>>
    ELSE IF matches(m.channel, "family", "alerts")
    THEN <<Emit("geofence_alert", channelId(m.channel), m.user, m.fam, "-", m.loc,
                RoomSockets(rooms, channelId(m.channel)))>>
    ELSE IF matches(m.channel, "user", "notifications")
    THEN FlatMap(SeqOfSet(connectedUsers[channelId(m.channel)]),
           [t \in Sockets |->
              <<Emit("notification", NoFamily, m.user, m.fam, "-", m.loc, {t})>>])
    ELSE <<>>

\* the subscriber connection delivers one published message to this instance
BusDeliver(m) ==
    /\ m \in bus
    /\ subscribed
    /\ bus' = bus \ {m}
    /\ emits' = dispatch(m)
    /\ last' = Ack("bus_message", None, NoFamily, None, TRUE, "none")
    /\ tick' = 1 - tick
    /\ UNCHANGED <<cacheEnabled, repoVars, cache, log, sockVars, histVars>>
    /\ UNCHANGED <<flightVars, noteVars>>

\* a published message finds no subscription of this instance: Redis pub/sub
\* keeps nothing for a subscriber that is not subscribed yet
BusLost(m) ==
    /\ m \in bus
    /\ ~subscribed
    /\ bus' = bus \ {m}
    /\ UNCHANGED <<cacheEnabled, repoVars, cache, log, sockVars, emits, last, tick,
                   histVars, flightVars, noteVars>>

\* RedisService.handleMessage: every callback subscribed to the channel is called
\* inside its own try; what a callback throws is logged and the loop goes on
handleMessage(callbacks, throwing) ==
    [invoked |-> callbacks, logged |-> callbacks \cap throwing]

\* the pmessage listener of RedisService.psubscribe: callback(channel,
\* JSON.parse(message)) inside a try whose catch calls callback(channel, message)
\* again with the unparsed text, outside any try; nothing is logged
pmessageListener(throwsParsed, throwsRaw) ==
    [calls |-> IF throwsParsed THEN 2 ELSE 1,
     logged |-> FALSE,
     uncaught |-> throwsParsed /\ throwsRaw]

\* the text of a published message, as the catch of the listener hands it to
\* the callback: a string has no user_id and no coordinates
rawMessage(m) == [m EXCEPT !.user = None, !.loc = NoLoc]

\* the subscriber connection emits pmessage for one published message: the
\* listener of onModuleInit runs handleMessage for the callbacks subscribed to
\* the channel by name, then the listener of the matching pattern runs the
\* gateway's callback, which throws or emits; an exception that leaves the
\* listener leaves emit() and is nobody's to catch
Deliver(m, callbacks, throwing, throwsParsed, throwsRaw) ==
    /\ m \in bus
    /\ subscribed
    /\ bus' = bus \ {m}
    /\ LET byName == handleMessage(callbacks, throwing)
           byPattern == pmessageListener(throwsParsed, throwsRaw)
       IN /\ emits' = IF ~throwsParsed THEN dispatch(m)
                      ELSE IF ~throwsRaw THEN dispatch(rawMessage(m))
                      ELSE <<>>
          /\ last' = [verb |-> "delivery", sock |-> None, fam |-> NoFamily,
                      target |-> None, ok |-> ~byPattern.uncaught,
                      error |-> IF byPattern.uncaught THEN "uncaught" ELSE "none",
                      loc |-> NoLoc,
                      registered |-> callbacks, invoked |-> byName.invoked,
                      thrown |-> (callbacks \cap throwing)
                                    \cup (IF throwsParsed THEN {"pattern"} ELSE {}),
                      logged |-> byName.logged
                                    \cup (IF byPattern.logged THEN {"pattern"} ELSE {}),
                      calls |-> byPattern.calls]
    /\ tick' = 1 - tick
    /\ UNCHANGED <<cacheEnabled, repoVars, cache, log, sockVars, histVars>>
    /\ UNCHANGED <<flightVars, noteVars>>

\* RedisService.psubscribe has resolved for the patterns of
\* setupRedisSubscriptions, which afterInit starts without awaiting them
Subscribe ==
    /\ ~subscribed
    /\ subscribed' = TRUE
    /\ UNCHANGED <<chanVars, forceLeft>>
    /\ UNCHANGED <<cacheEnabled, repoVars, cache, log, bus, sockVars, emits, last, tick,
                   histVars, flight, clock, noteVars>>

\* another component publishes a geofence alert of family f
PublishAlert(f) ==
    /\ Cardinality(bus) < MaxBus
    /\ bus' = bus \cup {[channel |-> <<"family", f, "alerts">>, user |-> None,
                         fam |-> f, loc |-> NoLoc]}
    /\ UNCHANGED <<cacheEnabled, repoVars, cache, log, sockVars, emits, last, tick,
                   histVars>>
    /\ UNCHANGED <<flightVars, noteVars>>

\* another component publishes a notification for user u
PublishNotification(u) ==
    /\ Cardinality(bus) < MaxBus
    /\ bus' = bus \cup {[channel |-> <<"user", u, "notifications">>, user |-> u,
                         fam |-> NoFamily, loc |-> NoLoc]}
    /\ UNCHANGED <<cacheEnabled, repoVars, cache, log, sockVars, emits, last, tick,
                   histVars>>
    /\ UNCHANGED <<flightVars, noteVars>>

\* ------------------------------------------------------------------ ghost mode

\* GhostModeService.updateGhostModeCache: written whatever CACHE_ENABLED says
updateGhostModeCache(c, u, f, enabled) ==
    IF f # NoFamily
    THEN [c EXCEPT !.ghostFamily[<<f, u>>] = IF enabled THEN "1" ELSE "0"]
    ELSE [c EXCEPT !.ghostGlobal[u] = IF enabled THEN "1" ELSE "0"]

\* effective ghost mode of u for f in the repository: global OR per-family
effectiveGhost(u, f) == u \in repoGhostGlobal \/ <<u, f>> \in repoGhostFamily

\* the cache written before the repository has answered
setGlobalGhostModeCacheFirst(c, u, enabled, rpcOk) ==
    updateGhostModeCache(c, u, NoFamily, enabled)

\* GhostModeService.setGlobalGhostMode, its effect on the cache: the rpc
\* first, and an error of the rpc is thrown before the cache is touched
setGlobalGhostMode(c, u, enabled, rpcOk) ==
    IF rpcOk THEN updateGhostModeCache(c, u, NoFamily, enabled) ELSE c

\* GhostModeService.setFamilyGhostMode, its effect on the cache
setFamilyGhostMode(c, u, f, enabled, rpcOk) ==
    IF rpcOk THEN updateGhostModeCache(c, u, f, enabled) ELSE c

\* the acknowledgment of a ghost_mode request, with the requested value
AckGhostMode(s, f, scope, enabled, ok, error) ==
    [verb |-> "ghost_mode", sock |-> s, fam |-> f, target |-> scope, ok |-> ok,
     error |-> error, loc |-> NoLoc, enabled |-> enabled]

\* handleGhostMode (rpcOk: the repository's set_*_ghost_mode call succeeded)
handleGhostMode(s, enabled, scope, f, rpcOk) ==
    /\ sockUser[s] # None
    /\ LET u == sockUser[s]
       IN IF scope = "global"
          THEN IF ~rpcOk
               THEN /\ last' = AckGhostMode(s, f, scope, enabled, FALSE,
                                            "Failed to update ghost mode")
                    /\ emits' = <<>>
                    /\ cache' = setGlobalGhostMode(cache, u, enabled, rpcOk)
                    /\ UNCHANGED <<repoGhostGlobal, repoGhostFamily>>
               ELSE /\ repoGhostGlobal' = IF enabled THEN repoGhostGlobal \cup {u}
                                          ELSE repoGhostGlobal \ {u}
                    /\ cache' = setGlobalGhostMode(cache, u, enabled, rpcOk)
                    /\ emits' = FlatMap(SeqOfSet(sockFamilies[s]),
                             [g \in Families |->
                                <<Emit("ghost_mode", g, u, g, "global", NoLoc,
                                       RoomSockets(rooms, g))>>])
                    /\ last' = AckGhostMode(s, f, scope, enabled, TRUE, "none")
                    /\ UNCHANGED repoGhostFamily
          ELSE IF scope = "family" /\ f # NoFamily
          THEN IF ~includesFamily(s, f)
               THEN /\ last' = AckGhostMode(s, f, scope, enabled, FALSE,
                                            "Unauthorized family access")
                    /\ emits' = <<>>
                    /\ UNCHANGED <<repoGhostGlobal, repoGhostFamily, cache>>
               ELSE IF ~rpcOk
               THEN /\ last' = AckGhostMode(s, f, scope, enabled, FALSE,
                                            "Failed to update ghost mode")
                    /\ emits' = <<>>
                    /\ cache' = setFamilyGhostMode(cache, u, f, enabled, rpcOk)
                    /\ UNCHANGED <<repoGhostGlobal, repoGhostFamily>>
               ELSE /\ repoGhostFamily' = IF enabled
                                          THEN repoGhostFamily \cup {<<u, f>>}
                                          ELSE repoGhostFamily \ {<<u, f>>}
                    /\ cache' = setFamilyGhostMode(cache, u, f, enabled, rpcOk)
                    /\ emits' = <<Emit("ghost_mode", f, u, f, "family", NoLoc,
                                       RoomSockets(rooms, f))>>
                    /\ last' = AckGhostMode(s, f, scope, enabled, TRUE, "none")
                    /\ UNCHANGED repoGhostGlobal
          ELSE /\ last' = AckGhostMode(s, f, scope, enabled, FALSE,
                                       "Invalid ghost mode request")
               /\ emits' = <<>>
               /\ UNCHANGED <<repoGhostGlobal, repoGhostFamily, cache>>
    /\ tick' = 1 - tick
    /\ UNCHANGED <<cacheEnabled, repoMembers, repoDeleted, log, bus, sockVars,
                   histVars>>

\* handleGhostMode run without interruption
GhostMode(s, enabled, scope, f, rpcOk) ==
    /\ handleGhostMode(s, enabled, scope, f, rpcOk)
    /\ UNCHANGED <<flightVars, noteVars>>

\* GhostModeService.isGhostModeEnabled(u, f): the answer, whether the
\* repository was queried, and the cache afterwards
\* (rpcOk: the rpc is_ghost_mode_enabled answered; probeOk: the select on
\* user_ghost_mode answered)
isGhostModeEnabled(c, u, f, rpcOk, probeOk) ==
    IF strictEquals(get(c.ghostGlobal[u]), Value("string", "1"))
    THEN [enabled |-> TRUE, scope |-> "global", queried |-> FALSE, cache |-> c]
    ELSE IF strictEquals(get(c.ghostFamily[<<f, u>>]), Value("string", "1"))
    THEN [enabled |-> TRUE, scope |-> "family", queried |-> FALSE, cache |-> c]
    ELSE IF ~rpcOk
    THEN [enabled |-> FALSE, scope |-> "none", queried |-> TRUE, cache |-> c]
    ELSE IF effectiveGhost(u, f)
    THEN IF probeOk /\ u \in repoGhostGlobal
         THEN [enabled |-> TRUE, scope |-> "global", queried |-> TRUE,
               cache |-> [c EXCEPT !.ghostGlobal[u] = "1"]]
         ELSE [enabled |-> TRUE, scope |-> "family", queried |-> TRUE,
               cache |-> [c EXCEPT !.ghostFamily[<<f, u>>] = "1"]]
    ELSE [enabled |-> FALSE, scope |-> "none", queried |-> TRUE, cache |-> c]

\* the answer of is_ghost(u, f)
AckGhost(u, f, r) ==
    [verb |-> "is_ghost", sock |-> None, fam |-> f, target |-> u, ok |-> TRUE,
     error |-> "none", loc |-> NoLoc, enabled |-> r.enabled, scope |-> r.scope,
     queried |-> r.queried]

\* a call of GhostModeService.isGhostModeEnabled
IsGhost(u, f, rpcOk, probeOk) ==
    /\ LET r == isGhostModeEnabled(cache, u, f, rpcOk, probeOk)
       IN /\ cache' = r.cache
          /\ last' = AckGhost(u, f, r)
    /\ emits' = <<>>
    /\ tick' = 1 - tick
    /\ UNCHANGED <<cacheEnabled, repoVars, log, bus, sockVars, histVars, flightVars,
                   noteVars>>

\* GhostModeService.invalidateFamilyGhostModeCache: the members come from the
\* repository directly; on an error nothing is deleted
invalidateFamilyGhostModeCache(c, f, repoOk) ==
    IF ~repoOk THEN c
    ELSE delAll(c, {<<"ghost_family", f, u>> : u \in {v \in Users : <<v, f>> \in repoMembers}})

\* ------------------------------------------------------------------ invalidation

invalidateUserFamilies(c, u) == del(c, <<"families", u>>)

invalidateFamilyMembers(c, f) == del(c, <<"members", f>>)

invalidateUserRole(c, u, f) == del(c, <<"role", u, f>>)

invalidateGeofences(c, f) == del(c, <<"geofence", f>>)

\* CacheService.invalidateCacheOnUserJoin
invalidateCacheOnUserJoin(c, u, f) ==
    invalidateFamilyMembers(invalidateUserFamilies(c, u), f)

\* invalidateCacheOnUserLeave without the delete of user:<u>:families
invalidateCacheOnUserLeaveKeepFamilies(c, u, f) ==
    del(del(invalidateUserRole(invalidateFamilyMembers(c, f), u, f),
            <<"last_location", u, f>>),
        <<"online", u, f>>)

\* CacheService.invalidateCacheOnUserLeave
invalidateCacheOnUserLeave(c, u, f) ==
    del(del(invalidateUserRole(invalidateFamilyMembers(invalidateUserFamilies(c, u), f),
                               u, f),
            <<"last_location", u, f>>),
        <<"online", u, f>>)

\* the per-member keys invalidateAllFamilyCache deletes
memberKeys(f, members) ==
    UNION {{<<"role", m, f>>, <<"last_location", m, f>>, <<"online", m, f>>} :
             m \in members}

\* CacheService.invalidateAllFamilyCache: the two deletes are issued first, then
\* getFamilyMembers misses, reads the repository and writes family:<f>:members
\* back; the per-member deletes follow
invalidateAllFamilyCache(c, f, repoOk) ==
    LET c1 == invalidateGeofences(invalidateFamilyMembers(c, f), f)
        members == getFamilyMembers(c1, f, repoOk)
        c2 == getFamilyMembersCache(c1, f, repoOk)
    IN delAll(c2, memberKeys(f, members))

\* CacheService.getGeofences: the cache it leaves
getGeofencesCache(c, f, repoOk) ==
    IF cacheEnabled /\ f \in c.geofence THEN c
    ELSE IF ~repoOk THEN c
    ELSE IF cacheEnabled THEN [c EXCEPT !.geofence = @ \cup {f}] ELSE c

\* CacheService.updateAllFamilyCache: invalidate, then read through, both keys
updateAllFamilyCache(c, f, repoOk) ==
    LET c1 == getFamilyMembersCache(invalidateFamilyMembers(c, f), f, repoOk)
    IN getGeofencesCache(invalidateGeofences(c1, f), f, repoOk)

\* CacheService.getUserRole: the cache it leaves (single(): no row is an error)
getUserRoleCache(c, u, f, repoOk) ==
    IF cacheEnabled /\ <<u, f>> \in c.role THEN c
    ELSE IF ~repoOk \/ <<u, f>> \notin repoMembers THEN c
    ELSE IF cacheEnabled THEN [c EXCEPT !.role = @ \cup {<<u, f>>}] ELSE c

\* sendToUser: one emit per socket of the user
sendToUser(u, event, f) ==
    FlatMap(SeqOfSet(connectedUsers[u]),
       [t \in Sockets |-> <<Emit(event, NoFamily, u, f, "-", NoLoc, {t})>>])

\* history: the sockets that socket.leave(`family:${f}`) takes out of the room
noteForceLeft(users, f) ==
    [s \in Sockets |->
       IF (\E u \in users : s \in connectedUsers[u]) /\ f \in rooms[s]
       THEN forceLeft[s] \cup {f} ELSE forceLeft[s]]

\* socket.leave(`family:${f}`) for every socket of the users
forceLeave(rm, users, f) ==
    [s \in Sockets |->
       IF \E u \in users : s \in connectedUsers[u] THEN rm[s] \ {f} ELSE rm[s]]

\* a handler's answer to a request for a family that is not in client.familyIds
Unauthorized(verb, s, f, target) ==
    /\ last' = Ack(verb, s, f, target, FALSE, "Unauthorized family access")
    /\ emits' = <<>>
    /\ UNCHANGED <<cache, rooms, deletedAck, roomAtDeletion>>

\* ------------------------------------------------------------------ gateway: events

\* handleUserAddedToFamily
UserAddedToFamily(s, f, v) ==
    /\ sockUser[s] # None
    /\ IF ~includesFamily(s, f)
       THEN Unauthorized("user_added_to_family", s, f, v)
       ELSE /\ cache' = invalidateCacheOnUserJoin(cache, v, f)
            /\ emits' = <<Emit("family_member_added", f, v, f, "-", NoLoc,
                               RoomSockets(rooms, f))>>
                        \o sendToUser(v, "added_to_family", f)
            /\ last' = Ack("user_added_to_family", s, f, v, TRUE, "none")
            /\ UNCHANGED <<rooms, deletedAck, roomAtDeletion>>
    /\ tick' = 1 - tick
    /\ UNCHANGED <<cacheEnabled, repoVars, log, bus, sockUser, sockFamilies,
                   connectedUsers, authAfterDel>>
    /\ addedAck' = IF includesFamily(s, f) /\ <<v, f>> \in repoMembers
                   THEN addedAck \cup {<<v, f>>}
                   ELSE addedAck
    /\ UNCHANGED <<flightVars, appendOrder, handshake>>

\* handleUserRemovedFromFamily
UserRemovedFromFamily(s, f, v) ==
    /\ sockUser[s] # None
    /\ IF ~includesFamily(s, f)
       THEN /\ Unauthorized("user_removed_from_family", s, f, v)
            /\ UNCHANGED forceLeft
       ELSE /\ cache' = invalidateCacheOnUserLeave(cache, v, f)
            /\ emits' = <<Emit("family_member_removed", f, v, f, "-", NoLoc,
                               RoomSockets(rooms, f))>>
                        \o sendToUser(v, "removed_from_family", f)
            /\ rooms' = forceLeave(rooms, {v}, f)
            /\ forceLeft' = noteForceLeft({v}, f)
            /\ last' = Ack("user_removed_from_family", s, f, v, TRUE, "none")
            /\ UNCHANGED <<deletedAck, roomAtDeletion>>
    /\ tick' = 1 - tick
    /\ UNCHANGED <<cacheEnabled, repoVars, log, bus, sockUser, sockFamilies,
                   connectedUsers, authAfterDel>>
    /\ UNCHANGED <<flight, clock, subscribed, chanVars, noteVars>>

\* handleFamilyDeleted: the repository calls of getFamilyMembers (the snapshot),
\* of invalidateAllFamilyCache and of invalidateFamilyGhostModeCache answer or
\* fail independently
FamilyDeleted(s, f, ok1, ok2, ok3) ==
    /\ sockUser[s] # None
    /\ IF ~includesFamily(s, f)
       THEN /\ Unauthorized("family_deleted", s, f, None)
            /\ UNCHANGED forceLeft
       ELSE LET members == getFamilyMembers(cache, f, ok1)
                c1 == getFamilyMembersCache(cache, f, ok1)
                c2 == invalidateAllFamilyCache(c1, f, ok2)
                c3 == invalidateFamilyGhostModeCache(c2, f, ok3)
            IN /\ cache' = delAll(c3, {<<"families", m>> : m \in members})
               /\ emits' = <<Emit("family_deleted", f, sockUser[s], f, "-", NoLoc,
                                  RoomSockets(rooms, f))>>
               /\ rooms' = forceLeave(rooms, members, f)
               /\ forceLeft' = noteForceLeft(members, f)
               /\ last' = Ack("family_deleted", s, f, None, TRUE, "none")
               /\ deletedAck' = deletedAck \cup {f}
               /\ roomAtDeletion' = [roomAtDeletion EXCEPT ![f] = RoomSockets(rooms, f)]
    /\ tick' = 1 - tick
    /\ UNCHANGED <<cacheEnabled, repoVars, log, bus, sockUser, sockFamilies,
                   connectedUsers, authAfterDel>>
    /\ UNCHANGED <<flight, clock, subscribed, chanVars, noteVars>>

\* handleMemberRoleUpdated
MemberRoleUpdated(s, f, v) ==
    /\ sockUser[s] # None
    /\ IF ~includesFamily(s, f)
       THEN Unauthorized("member_role_updated", s, f, v)
       ELSE /\ cache' = invalidateUserRole(cache, v, f)
            /\ emits' = <<Emit("member_role_updated", f, v, f, "-", NoLoc,
                               RoomSockets(rooms, f))>>
                        \o sendToUser(v, "your_role_updated", f)
            /\ last' = Ack("member_role_updated", s, f, v, TRUE, "none")
            /\ UNCHANGED <<rooms, deletedAck, roomAtDeletion>>
    /\ tick' = 1 - tick
    /\ UNCHANGED <<cacheEnabled, repoVars, log, bus, sockUser, sockFamilies,
                   connectedUsers, authAfterDel>>
    /\ UNCHANGED <<flightVars, noteVars>>

\* handleRefreshFamilyCache
RefreshFamilyCache(s, f, repoOk) ==
    /\ sockUser[s] # None
    /\ IF ~includesFamily(s, f)
       THEN Unauthorized("refresh_family_cache", s, f, None)
       ELSE /\ cache' = updateAllFamilyCache(cache, f, repoOk)
            /\ emits' = <<Emit("cache_refreshed", f, sockUser[s], f, "-", NoLoc,
                               RoomSockets(rooms, f))>>
            /\ last' = Ack("refresh_family_cache", s, f, None, TRUE, "none")
            /\ UNCHANGED <<rooms, deletedAck, roomAtDeletion>>
    /\ tick' = 1 - tick
    /\ UNCHANGED <<cacheEnabled, repoVars, log, bus, sockUser, sockFamilies,
                   connectedUsers, authAfterDel>>
    /\ UNCHANGED <<flightVars, noteVars>>

\* CacheService.getUserRole called for (u, f)
GetUserRole(u, f, repoOk) ==
    /\ cache' = getUserRoleCache(cache, u, f, repoOk)
    /\ cache' # cache
    /\ UNCHANGED <<cacheEnabled, repoVars, log, bus, sockVars, emits, last, tick,
                   histVars>>
    /\ UNCHANGED <<flightVars, noteVars>>

\* ------------------------------------------------------------------ handshake

\* client.handshake: the authorization header as <<scheme, rest>> (<<>> when
\* there is none), query.token and auth.token as JavaScript values
Handshake(header, query, auth) == [header |-> header, query |-> query, auth |-> auth]

\* no connection made yet
NoHandshake == Handshake(<<>>, Null, Null)

\* the tokens of the model: one signed for each user, one that does not verify
Tokens == {"tok_u1", "tok_u2", "tok_bad"}

\* the header's second part taken as the token whatever its scheme, and
\* nothing else looked at
extractTokenHeaderOnly(h) ==
    IF Len(h.header) = 2 THEN Value("string", h.header[2]) ELSE Null

\* WebSocketGatewayService.extractToken: the header if it starts with
\* 'Bearer ' (what follows, possibly nothing), else query.token if it is a
\* non-empty string, else auth.token if it is a non-empty string, else null
extractToken(h) ==
    IF Len(h.header) = 2 /\ h.header[1] = "Bearer"
    THEN Value("string", h.header[2])
    ELSE IF h.query.t = "string" /\ ~falsy(h.query) THEN h.query
    ELSE IF h.auth.t = "string" /\ ~falsy(h.auth) THEN h.auth
    ELSE Null

\* WebSocketGatewayService.verifyToken: payload.sub of a token that verifies,
\* None (null) when jwtService.verifyAsync throws
verifyToken(token) ==
    CASE token = "tok_u1" -> "u1"
      [] token = "tok_u2" -> "u2"
      [] OTHER -> None

\* handleConnection for a socket that presents handshake h
handleConnection(s, h, repoOk) ==
    /\ LET token == extractToken(h)
       IN IF falsy(token) THEN rejectConnection(s)
          ELSE IF verifyToken(token.v) = None THEN rejectConnection(s)
          ELSE acceptConnection(s, verifyToken(token.v), repoOk)
    /\ handshake' = [handshake EXCEPT ![s] = h]
    /\ UNCHANGED <<flightVars, addedAck, appendOrder>>

\* ------------------------------------------------------------------ HTTP guard

Undefined == Value("undefined", "undefined")

\* the token taken from the second part of the header whatever the first is
extractTokenFromHeaderAnyScheme(parts) ==
    IF Len(parts) >= 2 THEN Value("string", parts[2]) ELSE Undefined

\* SupabaseAuthGuard.extractTokenFromHeader: parts is
\* request.headers.authorization?.split(' ') ?? []; the second part if the
\* first is exactly 'Bearer', else undefined
extractTokenFromHeader(parts) ==
    IF Len(parts) >= 1 /\ parts[1] = "Bearer"
    THEN IF Len(parts) >= 2 THEN Value("string", parts[2]) ELSE Undefined
    ELSE Undefined

\* client.auth.getUser(token): the user of a token the verifier accepts, None
\* for {error} or no user, also when the verifier cannot be reached
getUser(token, reachable) == IF reachable THEN verifyToken(token) ELSE None

\* SupabaseAuthGuard.canActivate: true with request.user set, or an
\* UnauthorizedException with request.user untouched
canActivate(parts, configured, available, reachable) ==
    LET token == extractTokenFromHeader(parts)
        reject == [activate |-> FALSE, exception |-> "Unauthorized", user |-> None]
    IN IF falsy(token) THEN reject
       ELSE IF ~configured THEN reject
       ELSE IF ~available THEN reject
       ELSE IF getUser(token.v, reachable) = None THEN reject
       ELSE [activate |-> TRUE, exception |-> "none",
             user |-> getUser(token.v, reachable)]

\* a request to a route behind @UseGuards(SupabaseAuthGuard)
GuardedRequest(parts, configured, available, reachable) ==
    /\ LET r == canActivate(parts, configured, available, reachable)
       IN last' = [verb |-> "guarded_request", sock |-> None, fam |-> NoFamily,
                   target |-> r.user, ok |-> r.activate, error |-> r.exception,
                   loc |-> NoLoc, parts |-> parts,
                   verifier |-> configured /\ available, reachable |-> reachable]
    /\ emits' = <<>>
    /\ tick' = 1 - tick
    /\ UNCHANGED <<cacheEnabled, repoVars, cache, log, bus, sockVars, histVars,
                   flightVars, noteVars>>

\* ------------------------------------------------------------------ calls in steps
\* An async method gives way at each await.  The actions below run one method
\* in two steps, the part up to an awaited reply and the part after it, so
\* that other handlers can run in between.

\* a call that has started: what it holds while it awaits the reply
Op(kind, seq, s, u, f, loc, members, acked, enabled, scope) ==
    [op |-> kind, seq |-> seq, sock |-> s, user |-> u, fam |-> f, loc |-> loc,
     members |-> members, acked |-> acked, enabled |-> enabled, scope |-> scope]

\* the acknowledgment of a members_of read: the list returned, the users
\* whose user_added_to_family had been acknowledged when the read began,
\* whether the repository was queried and whether it answered
AckMembers(f, members, acked, queried, answered) ==
    [verb |-> "members_of", sock |-> None, fam |-> f, target |-> None, ok |-> TRUE,
     error |-> "none", loc |-> NoLoc, members |-> members, acked |-> acked,
     queried |-> queried, answered |-> answered]

\* users v with <<v, f>> acknowledged as added
AckedAdded(f) == {v \in Users : <<v, f>> \in addedAck}

\* CacheService.getFamilyMembers run without interruption
MembersOf(f, repoOk) ==
    /\ cache' = getFamilyMembersCache(cache, f, repoOk)
    /\ last' = AckMembers(f, getFamilyMembers(cache, f, repoOk), AckedAdded(f),
                          ~(cacheEnabled /\ cache.members[f] # {}), repoOk)
    /\ emits' = <<>>
    /\ tick' = 1 - tick
    /\ UNCHANGED <<cacheEnabled, repoVars, log, bus, sockVars, histVars, flightVars,
                   noteVars>>

\* CacheService.getUserFamilyIds run without interruption
FamiliesOf(u, repoOk) ==
    /\ cache' = getUserFamilyIdsCache(cache, u, repoOk)
    /\ last' = [AckMembers(NoFamily, getUserFamilyIds(cache, u, repoOk), {},
                           ~(cacheEnabled /\ cache.families[u] # {}), repoOk)
                   EXCEPT !.verb = "families_of", !.target = u]
    /\ emits' = <<>>
    /\ tick' = 1 - tick
    /\ UNCHANGED <<cacheEnabled, repoVars, log, bus, sockVars, histVars, flightVars,
                   noteVars>>

\* CacheService.getFamilyMembers when the repository answered and the SETEX of
\* the write-back fails: RedisService.set rethrows, the getter's catch returns []
MembersOfStoreFails(f) ==
    /\ cacheEnabled
    /\ cache.members[f] = {}
    /\ last' = [AckMembers(f, {}, AckedAdded(f), TRUE, TRUE)
                   EXCEPT !.error = "logged"]
    /\ emits' = <<>>
    /\ tick' = 1 - tick
    /\ UNCHANGED <<cacheEnabled, repoVars, cache, log, bus, sockVars, histVars,
                   flightVars, noteVars>>

\* CacheService.getUserFamilyIds likewise; the write-back is attempted for a
\* list that is not empty
FamiliesOfStoreFails(u) ==
    /\ cacheEnabled
    /\ cache.families[u] = {}
    /\ {f \in Families : <<u, f>> \in repoMembers} # {}
    /\ last' = [AckMembers(NoFamily, {}, {}, TRUE, TRUE)
                   EXCEPT !.verb = "families_of", !.target = u, !.error = "logged"]
    /\ emits' = <<>>
    /\ tick' = 1 - tick
    /\ UNCHANGED <<cacheEnabled, repoVars, cache, log, bus, sockVars, histVars,
                   flightVars, noteVars>>

\* another server instance, running with the cache enabled on the same Redis,
\* has written family:<f>:members
OtherInstanceCachesMembers(f, members) ==
    /\ cache' = [cache EXCEPT !.members[f] = {members}]
    /\ cache' # cache
    /\ UNCHANGED <<cacheEnabled, repoVars, log, bus, sockVars, emits, last, tick,
                   histVars, flightVars, noteVars>>

\* CacheService.getFamilyMembers up to the repository's answer: the cache
\* missed (or is disabled) and the rows of family f have been selected
MembersReadBegin(f) ==
    /\ ~(cacheEnabled /\ cache.members[f] # {})
    /\ Cardinality(flight) < MaxFlight
    /\ clock < MaxArrivals
    /\ flight' = flight \cup
          {Op("members_of", clock, None, None, f, NoLoc,
              {u \in Users : <<u, f>> \in repoMembers}, AckedAdded(f), FALSE, "-")}
    /\ clock' = clock + 1
    /\ UNCHANGED <<cacheEnabled, repoVars, cache, log, bus, sockVars, emits, last, tick,
                   histVars, subVars, noteVars>>

\* CacheService.getFamilyMembers from the repository's answer on: the list is
\* written to family:<f>:members (if the cache is enabled) and returned
MembersReadEnd(op) ==
    /\ op \in flight /\ op.op = "members_of"
    /\ flight' = flight \ {op}
    /\ cache' = IF cacheEnabled
                THEN [cache EXCEPT !.members[op.fam] = {op.members}]
                ELSE cache
    /\ last' = AckMembers(op.fam, op.members, op.acked, TRUE, TRUE)
    /\ emits' = <<>>
    /\ tick' = 1 - tick
    /\ UNCHANGED <<cacheEnabled, repoVars, log, bus, sockVars, histVars, clock,
                   subVars, noteVars>>

\* handleGhostMode up to the rpc of setGlobalGhostMode or setFamilyGhostMode:
\* the request has a valid scope and awaits the repository
GhostModeBegin(s, enabled, scope, f) ==
    /\ sockUser[s] # None
    /\ scope = "global" \/ (scope = "family" /\ f # NoFamily /\ includesFamily(s, f))
    /\ Cardinality(flight) < MaxFlight
    /\ clock < MaxArrivals
    /\ flight' = flight \cup
          {Op("ghost_mode", clock, s, sockUser[s], f, NoLoc, {}, {}, enabled, scope)}
    /\ clock' = clock + 1
    /\ UNCHANGED <<cacheEnabled, repoVars, cache, log, bus, sockVars, emits, last, tick,
                   histVars, subVars, noteVars>>

\* handleGhostMode from the repository's answer on: cache write, broadcast
\* and acknowledgment
GhostModeEnd(op, rpcOk) ==
    /\ op \in flight /\ op.op = "ghost_mode"
    /\ flight' = flight \ {op}
    /\ handleGhostMode(op.sock, op.enabled, op.scope, op.fam, rpcOk)
    /\ UNCHANGED <<clock, subVars, noteVars>>

\* isGhostModeEnabled up to the rpc is_ghost_mode_enabled: neither cached value
\* compared equal to '1', and the repository's answer is held (rpcOk: the rpc
\* answered)
IsGhostBegin(u, f, rpcOk) ==
    /\ ~strictEquals(get(cache.ghostGlobal[u]), Value("string", "1"))
    /\ ~strictEquals(get(cache.ghostFamily[<<f, u>>]), Value("string", "1"))
    /\ Cardinality(flight) < MaxFlight
    /\ clock < MaxArrivals
    /\ flight' = flight \cup
          {Op("is_ghost", clock, None, u, f, NoLoc, {}, {},
              rpcOk /\ effectiveGhost(u, f), "-")}
    /\ clock' = clock + 1
    /\ UNCHANGED <<cacheEnabled, repoVars, cache, log, bus, sockVars, emits, last, tick,
                   histVars, subVars, noteVars>>

\* isGhostModeEnabled, the select on user_ghost_mode after the rpc answered
\* true: the scope the result will be cached under
IsGhostProbe(op, probeOk) ==
    /\ op \in flight /\ op.op = "is_ghost" /\ op.enabled
    /\ flight' = (flight \ {op}) \cup
          {[op EXCEPT !.op = "is_ghost_probed",
                      !.scope = IF probeOk /\ op.user \in repoGhostGlobal
                                THEN "global" ELSE "family"]}
    /\ UNCHANGED <<cacheEnabled, repoVars, cache, log, bus, sockVars, emits, last, tick,
                   histVars, clock, subVars, noteVars>>

\* isGhostModeEnabled from its last repository answer on: the write of '1'
\* under the scope found, and the result
IsGhostEnd(op) ==
    /\ op \in flight
    /\ \/ op.op = "is_ghost" /\ ~op.enabled
       \/ op.op = "is_ghost_probed"
    /\ flight' = flight \ {op}
    /\ cache' = IF op.op = "is_ghost" THEN cache
                ELSE IF op.scope = "global"
                THEN [cache EXCEPT !.ghostGlobal[op.user] = "1"]
                ELSE [cache EXCEPT !.ghostFamily[<<op.fam, op.user>>] = "1"]
    /\ last' = AckGhost(op.user, op.fam,
                  [enabled |-> op.enabled,
                   scope |-> IF op.enabled THEN op.scope ELSE "none",
                   queried |-> TRUE])
    /\ emits' = <<>>
    /\ tick' = 1 - tick
    /\ UNCHANGED <<cacheEnabled, repoVars, log, bus, sockVars, histVars, clock, subVars,
                   noteVars>>

\* handleConnection up to the await of getUserFamilyIds: the token has
\* verified as u and client.userId is set; familyIds is not yet
ConnectBegin(s, u) ==
    /\ sockUser[s] = None
    /\ \A op \in flight : op.sock # s
    /\ Cardinality(flight) < MaxFlight
    /\ clock < MaxArrivals
    /\ flight' = flight \cup {Op("connect", clock, s, u, NoFamily, NoLoc, {}, {}, FALSE, "-")}
    /\ clock' = clock + 1
    /\ UNCHANGED <<cacheEnabled, repoVars, cache, log, bus, sockVars, emits, last, tick,
                   histVars, subVars, noteVars>>

\* handleConnection from the answer of getUserFamilyIds on
ConnectEnd(op, repoOk) ==
    /\ op \in flight /\ op.op = "connect"
    /\ flight' = flight \ {op}
    /\ acceptConnection(op.sock, op.user, repoOk)
    /\ UNCHANGED <<clock, subVars, noteVars>>

\* handleDisconnect for a socket whose handleConnection has not finished:
\* client.userId is set (or not yet: then nothing is done at all), the socket's
\* id is not in connectedUsers, so userSockets.delete removes nothing and a set
\* of other sockets of the user stays as it is; the socket is closed from now
\* on and its handleConnection is still to resume
DisconnectAuthenticating(op) ==
    /\ op \in flight /\ op.op = "connect"
    /\ flight' = (flight \ {op}) \cup {[op EXCEPT !.op = "connect_closed"]}
    /\ last' = Ack("disconnect", op.sock, NoFamily, op.user, TRUE, "none")
    /\ emits' = <<>>
    /\ tick' = 1 - tick
    /\ UNCHANGED <<cacheEnabled, repoVars, cache, log, bus, sockVars, histVars,
                   clock, subVars, noteVars>>

\* handleConnection resumes for a socket that has been closed meanwhile: nothing
\* tests the socket's state; its id is added to connectedUsers, the online keys
\* are set and presence_update is sent to the rooms; no disconnect of this
\* socket will follow
ConnectEndClosed(op, repoOk) ==
    /\ op \in flight /\ op.op = "connect_closed"
    /\ flight' = flight \ {op}
    /\ LET fams == getUserFamilyIds(cache, op.user, repoOk)
           c1 == getUserFamilyIdsCache(cache, op.user, repoOk)
       IN /\ connectedUsers' = [connectedUsers EXCEPT ![op.user] = @ \cup {op.sock}]
          /\ cache' = setOnlineAll(c1, op.user, fams, TRUE)
          /\ emits' = FlatMap(SeqOfSet(fams),
                   [f \in Families |->
                      <<Emit("presence_update", f, op.user, f, "online", NoLoc,
                             RoomSockets(rooms, f))>>])
    /\ last' = Ack("connect", op.sock, NoFamily, op.user, TRUE, "none")
    /\ tick' = 1 - tick
    /\ UNCHANGED <<cacheEnabled, repoVars, log, bus, sockUser, sockFamilies, rooms,
                   histVars, clock, subVars, noteVars>>

\* handlePing for a socket whose handleConnection has not finished: the
\* message handlers are bound when the socket connects and test nothing
PingAuthenticating(op) ==
    /\ op \in flight /\ op.op = "connect"
    /\ emits' = <<Emit("pong", NoFamily, None, NoFamily, "-", NoLoc, {op.sock})>>
    /\ last' = Ack("ping", op.sock, NoFamily, None, TRUE, "none")
    /\ tick' = 1 - tick
    /\ UNCHANGED <<cacheEnabled, repoVars, cache, log, bus, sockVars, histVars,
                   flightVars, noteVars>>

\* handleLeaveFamily for a socket whose handleConnection has not finished:
\* client.userId is already set, nothing is tested
LeaveFamilyAuthenticating(op, f) ==
    /\ op \in flight /\ op.op = "connect"
    /\ cache' = setOnlineStatus(cache, op.user, f, FALSE)
    /\ emits' = <<Emit("presence_update", f, op.user, f, "offline", NoLoc,
                       RoomSockets(rooms, f))>>
    /\ last' = Ack("leave_family", op.sock, f, None, TRUE, "none")
    /\ tick' = 1 - tick
    /\ UNCHANGED <<cacheEnabled, repoVars, log, bus, sockVars, histVars, flightVars,
                   noteVars>>

\* ------------------------------------------------------------------ subscriptions by name

\* the channels and the callbacks of RedisService.subscribe(channel, callback)
Channels == {"c1"}
Handlers == {"h1", "h2", "h3"}

\* subscribers.has(channel) is false
NoSet == [has |-> FALSE, cbs |-> <<>>]

\* Set.add and Set.delete on a Set kept in insertion order
add(cbs, h) == IF h \in Range(cbs) THEN cbs ELSE Append(cbs, h)
delete(cbs, h) == SelectSeq(cbs, LAMBDA x : x # h)

\* the acknowledgment of a subscribe or unsubscribe call
AckChannel(verb, ch, h, ok) ==
    [verb |-> verb, sock |-> None, fam |-> NoFamily, target |-> h, ok |-> ok,
     error |-> IF ok THEN "none" ELSE "logged", loc |-> NoLoc, channel |-> ch]

\* RedisService.subscribe(ch, h) up to its first await: a channel the map has
\* gets the callback at once; for a channel it has not, an empty Set is stored
\* and redisSubClient.subscribe(ch) is awaited
SubscribeBegin(ch, h) ==
    /\ clock < MaxArrivals
    /\ clock' = clock + 1
    /\ IF subscribers[ch].has
       THEN /\ subscribers' = [subscribers EXCEPT ![ch].cbs = add(@, h)]
            /\ completed' = completed \cup {<<ch, h>>}
            /\ last' = AckChannel("subscribe", ch, h, TRUE)
            /\ tick' = 1 - tick
            /\ UNCHANGED flight
       ELSE /\ Cardinality(flight) < MaxFlight
            /\ subscribers' = [subscribers EXCEPT ![ch] = [has |-> TRUE, cbs |-> <<>>]]
            /\ flight' = flight \cup
                  {Op("subscribe", clock, None, h, ch, NoLoc, {}, {}, FALSE, "-")}
            /\ UNCHANGED <<completed, last, tick>>
    /\ UNCHANGED <<cacheEnabled, repoVars, cache, log, bus, sockVars, emits, histVars,
                   subscribed, forceLeft, backend, noteVars>>

\* RedisService.subscribe after redisSubClient.subscribe(ch) has answered: the
\* callback is added to whatever subscribers.get(ch) is now; a failure is
\* logged and thrown on, the Set stored before the await stays
SubscribeEnd(op, ok) ==
    /\ op \in flight /\ op.op = "subscribe"
    /\ flight' = flight \ {op}
    /\ IF ok /\ subscribers[op.fam].has
       THEN /\ subscribers' = [subscribers EXCEPT ![op.fam].cbs = add(@, op.user)]
            /\ completed' = completed \cup {<<op.fam, op.user>>}
       ELSE UNCHANGED <<subscribers, completed>>
    /\ backend' = IF ok THEN backend \cup {op.fam} ELSE backend
    /\ last' = AckChannel("subscribe", op.fam, op.user, ok /\ subscribers[op.fam].has)
    /\ tick' = 1 - tick
    /\ UNCHANGED <<cacheEnabled, repoVars, cache, log, bus, sockVars, emits, histVars,
                   clock, subscribed, forceLeft, noteVars>>

\* RedisService.unsubscribe(ch, h) up to its first await: the callback is
\* deleted from the channel's Set; if the Set is empty now (or no callback was
\* given: h = None, or the map has no such channel)
\* redisSubClient.unsubscribe(ch) is awaited
UnsubscribeBegin(ch, h) ==
    /\ clock < MaxArrivals
    /\ clock' = clock + 1
    /\ completed' = {p \in completed : p[1] # ch \/ (h # None /\ p[2] # h)}
    /\ LET cbs == IF h # None /\ subscribers[ch].has THEN delete(subscribers[ch].cbs, h)
                  ELSE subscribers[ch].cbs
       IN /\ subscribers' = [subscribers EXCEPT ![ch].cbs = cbs]
          /\ IF h # None /\ subscribers[ch].has /\ cbs # <<>>
             THEN /\ last' = AckChannel("unsubscribe", ch, h, TRUE)
                  /\ tick' = 1 - tick
                  /\ UNCHANGED flight
             ELSE /\ Cardinality(flight) < MaxFlight
                  /\ flight' = flight \cup
                        {Op("unsubscribe", clock, None, h, ch, NoLoc, {}, {}, FALSE, "-")}
                  /\ UNCHANGED <<last, tick>>
    /\ UNCHANGED <<cacheEnabled, repoVars, cache, log, bus, sockVars, emits, histVars,
                   subscribed, forceLeft, backend, noteVars>>

\* RedisService.unsubscribe after redisSubClient.unsubscribe(ch) has answered:
\* subscribers.delete(ch), whatever the Set holds by now; a failure is logged
\* and swallowed before the delete
UnsubscribeEnd(op, ok) ==
    /\ op \in flight /\ op.op = "unsubscribe"
    /\ flight' = flight \ {op}
    /\ subscribers' = IF ok THEN [subscribers EXCEPT ![op.fam] = NoSet] ELSE subscribers
    /\ backend' = IF ok THEN backend \ {op.fam} ELSE backend
    /\ last' = AckChannel("unsubscribe", op.fam, op.user, ok)
    /\ tick' = 1 - tick
    /\ UNCHANGED <<cacheEnabled, repoVars, cache, log, bus, sockVars, emits, histVars,
                   clock, subscribed, forceLeft, completed, noteVars>>

\* what a callback does with the subscriptions of the channel it is called for
Acts == {[do |-> "none", h |-> "h1"], [do |-> "subscribe", h |-> "h3"],
         [do |-> "unsubscribe", h |-> "h2"]}

\* the synchronous part of the subscribe or unsubscribe a callback calls: the
\* channel is in the map and the Set keeps the calling callback
apply(act, cbs) ==
    IF act.do = "subscribe" THEN add(cbs, act.h)
    ELSE IF act.do = "unsubscribe" THEN delete(cbs, act.h)
    ELSE cbs

\* callbacks.forEach of handleMessage: the Set of the map itself is walked, so
\* a callback added during the walk is visited and one deleted before its turn
\* is not; h1 performs act when it is called
RECURSIVE forEach(_, _, _)
forEach(cbs, invoked, act) ==
    LET rest == SelectSeq(cbs, LAMBDA h : h \notin Range(invoked))
    IN IF rest = <<>> THEN [cbs |-> cbs, invoked |-> invoked]
       ELSE forEach(IF rest[1] = "h1" THEN apply(act, cbs) ELSE cbs,
                    Append(invoked, rest[1]), act)

\* a message of channel ch arrives: handleMessage calls the channel's callbacks
ChannelMessage(ch, act) ==
    /\ ch \in backend
    /\ subscribers[ch].has
    /\ LET r == forEach(subscribers[ch].cbs, <<>>, act)
       IN /\ subscribers' = [subscribers EXCEPT ![ch].cbs = r.cbs]
          /\ completed' =
                (completed \cup {<<ch, h>> : h \in Range(r.cbs)})
                   \ {<<ch, h>> : h \in Range(subscribers[ch].cbs) \ Range(r.cbs)}
          /\ last' = [AckChannel("channel_message", ch, None, TRUE) EXCEPT
                         !.error = "none"]
                      @@ [registered |-> Range(subscribers[ch].cbs),
                          invoked |-> Range(r.invoked)]
    /\ tick' = 1 - tick
    /\ UNCHANGED <<cacheEnabled, repoVars, cache, log, bus, sockVars, emits, histVars,
                   flight, clock, subscribed, forceLeft, backend, noteVars>>

\* the XADD commands sent on redisClient and not yet executed
QueuedAppends(fl) == {op \in fl : op.op = "xadd"}

\* the command executed last-in first-out
nextCommandNewest(fl) ==
    CHOOSE op \in QueuedAppends(fl) : \A o \in QueuedAppends(fl) : o.seq <= op.seq

\* the command redisClient hands to the server next: the one connection of the
\* client sends its commands in the order they were issued
nextCommand(fl) ==
    CHOOSE op \in QueuedAppends(fl) : \A o \in QueuedAppends(fl) : op.seq <= o.seq

\* the ingests of family f that have started and not yet completed
IngestsInFlight(fl, f) == {op \in fl : op.op \in {"xadd", "appended"} /\ op.fam = f}

\* handleLocationUpdate up to the XADD of processLocationUpdate: the family
\* check has passed and the command is on its way to the log
IngestBegin(s, f, loc) ==
    /\ sockUser[s] # None
    /\ locationAuthorized(s, f)
    /\ Cardinality(flight) < MaxFlight
    /\ clock < MaxArrivals
    /\ Len(log[f]) + Cardinality(IngestsInFlight(flight, f)) < MaxLog
    /\ flight' = flight \cup
          {Op("xadd", clock, s, sockUser[s], f, loc, {}, {}, FALSE, "-")}
    /\ clock' = clock + 1
    /\ UNCHANGED <<cacheEnabled, repoVars, cache, log, bus, sockVars, emits, last, tick,
                   histVars, subVars, noteVars>>

\* the log executes the next XADD: the entry gets the stream's next id
IngestAppend ==
    /\ QueuedAppends(flight) # {}
    /\ LET op == nextCommand(flight)
       IN /\ log' = [log EXCEPT ![op.fam] =
                        Append(@, LogEntry(log, op.user, op.fam, op.loc))]
          /\ appendOrder' = [appendOrder EXCEPT ![op.fam] =
                        Append(@, [seq |-> op.seq, user |-> op.user, loc |-> op.loc])]
          /\ flight' = (flight \ {op}) \cup {[op EXCEPT !.op = "appended"]}
    /\ UNCHANGED <<cacheEnabled, repoVars, cache, bus, sockVars, emits, last, tick,
                   histVars, clock, subVars, addedAck, handshake>>

\* processLocationUpdate from the reply of the XADD on: setLastLocation,
\* PUBLISH, and the acknowledgment of handleLocationUpdate
\* (the SETEX of overlapping ingests reach the cache in any order: nothing in
\* setLastLocation orders them, and the handlers of two server instances write
\* through two connections)
IngestEnd(op, publishOk) ==
    /\ op \in flight /\ op.op = "appended"
    /\ flight' = flight \ {op}
    /\ cache' = setLastLocation(cache, op.user, op.fam, op.loc)
    /\ bus' = IF publishOk THEN bus \cup {LocationMessage(op.user, op.fam, op.loc)}
              ELSE bus
    /\ last' = [Ack("location_update", op.sock, op.fam, op.user, publishOk, "none")
                   EXCEPT !.loc = op.loc]
    /\ emits' = <<>>
    /\ tick' = 1 - tick
    /\ UNCHANGED <<cacheEnabled, repoVars, log, sockVars, histVars, clock, subVars,
                   noteVars>>

\* ------------------------------------------------------------------ repository

\* a membership row is inserted (by the application's REST surface)
RepoAddMember(u, f) ==
    /\ f \notin repoDeleted
    /\ <<u, f>> \notin repoMembers
    /\ repoMembers' = repoMembers \cup {<<u, f>>}
    /\ UNCHANGED <<cacheEnabled, repoDeleted, repoGhostGlobal, repoGhostFamily, cache,
                   log, bus, sockVars, emits, last, tick, histVars>>
    /\ UNCHANGED <<flightVars, noteVars>>

\* a membership row is deleted
RepoRemoveMember(u, f) ==
    /\ <<u, f>> \in repoMembers
    /\ repoMembers' = repoMembers \ {<<u, f>>}
    /\ UNCHANGED <<cacheEnabled, repoDeleted, repoGhostGlobal, repoGhostFamily, cache,
                   log, bus, sockVars, emits, last, tick, histVars>>
    /\ UNCHANGED <<flightVars, noteVars>>

\* a family is deleted, and its membership and ghost-mode rows with it
RepoDeleteFamily(f) ==
    /\ f \notin repoDeleted
    /\ repoDeleted' = repoDeleted \cup {f}
    /\ repoMembers' = {p \in repoMembers : p[2] # f}
    /\ repoGhostFamily' = {p \in repoGhostFamily : p[2] # f}
    /\ UNCHANGED <<cacheEnabled, repoGhostGlobal, cache, log, bus, sockVars, emits,
                   last, tick, histVars>>
    /\ UNCHANGED <<flightVars, noteVars>>

\* ------------------------------------------------------------------ specifications

\* the state after construction, with the given rows in family_members and
\* the pattern subscriptions active or not yet
InitWith(members, active) ==
    /\ subscribed = active
    /\ forceLeft = [s \in Sockets |-> {}]
    /\ cacheEnabled \in BOOLEAN
    /\ repoMembers = members
    /\ repoDeleted = {}
    /\ repoGhostGlobal = {}
    /\ repoGhostFamily = {}
    /\ cache = EmptyCache
    /\ log = [f \in FamilyIds |-> <<>>]
    /\ bus = {}
    /\ sockUser = [s \in Sockets |-> None]
    /\ sockFamilies = [s \in Sockets |-> {}]
    /\ rooms = [s \in Sockets |-> {}]
    /\ connectedUsers = [u \in Users |-> {}]
    /\ emits = <<>>
    /\ last = Ack("init", None, NoFamily, None, TRUE, "none")
    /\ tick = 0
    /\ deletedAck = {}
    /\ roomAtDeletion = [f \in Families |-> {}]
    /\ authAfterDel = [s \in Sockets |-> {}]
    /\ flight = {}
    /\ clock = 0
    /\ addedAck = {}
    /\ appendOrder = [f \in FamilyIds |-> <<>>]
    /\ handshake = [s \in Sockets |-> NoHandshake]
    /\ subscribers = [ch \in Channels |-> NoSet]
    /\ backend = {}
    /\ completed = {}

\* the state once the subscriptions of afterInit are active
InitState(members) == InitWith(members, TRUE)

\* u1 is in fA, u2 is in fA and fB
Init == InitState({<<"u1", "fA">>, <<"u2", "fA">>, <<"u2", "fB">>})

Scopes == {"global", "family"}
Locs == {<<c[1], c[2], a, "55">> : c \in Coords, a \in Accuracies}

SessionSteps ==
    \/ \E s \in Sockets : ConnectRejected(s)
    \/ \E s \in Sockets, u \in Users, repoOk \in BOOLEAN : Connect(s, u, repoOk)
    \/ \E s \in Sockets : Disconnect(s)
    \/ \E s \in Sockets, f \in Families : JoinFamily(s, f)
    \/ \E s \in Sockets, f \in Families : LeaveFamily(s, f)

IngestSteps ==
    \/ \E s \in Sockets, f \in FamilyIds \cup {NoFamily}, loc \in Locs,
          appendOk \in BOOLEAN, publishOk \in BOOLEAN :
            LocationUpdate(s, f, loc, appendOk, publishOk)
    \/ \E f \in FamilyIds, loc \in Locs, appendOk \in BOOLEAN, publishOk \in BOOLEAN :
         RestUpdateLocation(f, loc, appendOk, publishOk)
    \/ \E s \in Sockets : Ping(s)
    \/ \E m \in bus : BusDeliver(m)
    \/ \E f \in Families : PublishAlert(f)
    \/ \E u \in Users : PublishNotification(u)

GhostSteps ==
    \E s \in Sockets, enabled \in BOOLEAN, scope \in Scopes,
       f \in Families \cup {NoFamily}, rpcOk \in BOOLEAN :
         GhostMode(s, enabled, scope, f, rpcOk)

EventSteps ==
    \/ \E s \in Sockets, f \in Families, v \in Users : UserAddedToFamily(s, f, v)
    \/ \E s \in Sockets, f \in Families, v \in Users : UserRemovedFromFamily(s, f, v)
    \/ \E s \in Sockets, f \in Families, ok1 \in BOOLEAN, ok2 \in BOOLEAN,
          ok3 \in BOOLEAN : FamilyDeleted(s, f, ok1, ok2, ok3)
    \/ \E s \in Sockets, f \in Families, v \in Users : MemberRoleUpdated(s, f, v)
    \/ \E s \in Sockets, f \in Families, repoOk \in BOOLEAN :
         RefreshFamilyCache(s, f, repoOk)
    \/ \E u \in Users, f \in Families, repoOk \in BOOLEAN : GetUserRole(u, f, repoOk)

RepoSteps ==
    \/ \E u \in Users, f \in Families : RepoAddMember(u, f)
    \/ \E u \in Users, f \in Families : RepoRemoveMember(u, f)
    \/ \E f \in Families : RepoDeleteFamily(f)

\* sessions and presence: connect, disconnect, join_family, leave_family
NextPresence == SessionSteps

SpecPresence == Init /\ [][NextPresence]_vars

\* ingestion: both users are members of fA alone; s1 is u1's socket and s2 is
\* u2's; u1 switches ghost mode; the samples carry the coordinates of scenario 2
InitIngest == InitState({<<"u1", "fA">>, <<"u2", "fA">>})

IngestLocs == {<<40000, -74000, 8, "55">>}

NextIngest ==
    \/ \E repoOk \in BOOLEAN : Connect("s1", "u1", repoOk)
    \/ \E repoOk \in BOOLEAN : Connect("s2", "u2", repoOk)
    \/ \E s \in {"s1", "s2"}, f \in Families \cup {NoFamily}, loc \in IngestLocs,
          appendOk \in BOOLEAN, publishOk \in BOOLEAN :
            LocationUpdate(s, f, loc, appendOk, publishOk)
    \/ \E loc \in IngestLocs, appendOk \in BOOLEAN, publishOk \in BOOLEAN :
         RestUpdateLocation("fA", loc, appendOk, publishOk)
    \/ \E enabled \in BOOLEAN, scope \in Scopes, f \in {"fA", NoFamily},
          rpcOk \in BOOLEAN : GhostMode("s1", enabled, scope, f, rpcOk)
    \/ \E m \in bus : BusDeliver(m)

SpecIngest == InitIngest /\ [][NextIngest]_vars

\* family verbs: s1 is u1's socket (a member of fA alone) and sends every family
\* verb for either family; s2 is u2's (a member of fA and fB), it connects and
\* switches its ghost mode for fB
NextAuth ==
    \/ Connect("s1", "u1", TRUE)
    \/ Connect("s2", "u2", TRUE)
    \/ \E s \in {"s1", "s2"}, f \in Families : JoinFamily(s, f)
    \/ \E s \in {"s1", "s2"} : GhostMode(s, TRUE, "family", "fB", TRUE)
    \/ GetUserRole("u2", "fB", TRUE)
    \/ \E f \in Families, v \in Users : UserAddedToFamily("s1", f, v)
    \/ \E f \in Families, v \in Users : UserRemovedFromFamily("s1", f, v)
    \/ \E f \in Families : FamilyDeleted("s1", f, TRUE, TRUE, TRUE)
    \/ \E f \in Families, v \in Users : MemberRoleUpdated("s1", f, v)
    \/ \E f \in Families : RefreshFamilyCache("s1", f, TRUE)

SpecAuth == Init /\ [][NextAuth]_vars

\* fan-out: s1 is u1's socket (a member of fA alone), s2 is u2's (a member of fA
\* and fB); sockets come, go, join and leave rooms; samples arrive over the
\* socket (u2, for fA) and over POST /location/update (with the family_id
\* "fA:x"), alerts of fB are published by another component, and the subscriber
\* connection delivers them
NextFanout ==
    \/ Connect("s1", "u1", TRUE)
    \/ Connect("s2", "u2", TRUE)
    \/ \E s \in {"s1", "s2"} : Disconnect(s)
    \/ \E s \in {"s1", "s2"}, f \in Families : JoinFamily(s, f)
    \/ \E s \in {"s1", "s2"}, f \in Families : LeaveFamily(s, f)
    \/ \E loc \in IngestLocs : LocationUpdate("s2", "fA", loc, TRUE, TRUE)
    \/ \E loc \in IngestLocs : RestUpdateLocation("fA:x", loc, TRUE, TRUE)
    \/ PublishAlert("fB")
    \/ \E m \in bus : BusDeliver(m)

SpecFanout == Init /\ [][NextFanout]_vars

\* removal: s1 is u1's socket, s2 and s3 are u2's; u1 and u2 are in fA, u2 also
\* in fB; the keys of (u2, fA) get cached, u2's row in fA leaves the repository,
\* u1 reports removals, u2's sockets may ask to join again
NextRemoval ==
    \/ Connect("s1", "u1", TRUE)
    \/ \E s \in {"s2", "s3"} : Connect(s, "u2", TRUE)
    \/ \E s \in {"s2", "s3"} : JoinFamily(s, "fA")
    \/ \E f \in Families, v \in Users : UserRemovedFromFamily("s1", f, v)
    \/ RefreshFamilyCache("s1", "fA", TRUE)
    \/ GetUserRole("u2", "fA", TRUE)
    \/ \E loc \in IngestLocs : LocationUpdate("s2", "fA", loc, TRUE, FALSE)
    \/ RepoRemoveMember("u2", "fA")

SpecRemoval == Init /\ [][NextRemoval]_vars

\* deletion: s1 is u1's socket, s2 is u2's; the repository deletes fA, u1 reports
\* family_deleted for it; u2's socket reconnects, asks to join, sends samples
NextDeletion ==
    \/ Connect("s1", "u1", TRUE)
    \/ Connect("s2", "u2", TRUE)
    \/ Disconnect("s2")
    \/ JoinFamily("s2", "fA")
    \/ GhostMode("s2", TRUE, "family", "fA", TRUE)
    \/ GetUserRole("u2", "fA", TRUE)
    \/ \E ok1 \in BOOLEAN, ok2 \in BOOLEAN, ok3 \in BOOLEAN :
         FamilyDeleted("s1", "fA", ok1, ok2, ok3)
    \/ \E loc \in IngestLocs : LocationUpdate("s2", "fA", loc, TRUE, TRUE)
    \/ \E m \in bus : BusDeliver(m)
    \/ RepoDeleteFamily("fA")

SpecDeletion == Init /\ [][NextDeletion]_vars

\* member reads: u1 is in fA and s1 is its socket; u2's row is inserted, u1
\* reports user_added_to_family for it; the member list of fA is read through
\* the cache, in one step or in two; the repository answers every query
InitMembers == InitState({<<"u1", "fA">>})

NextMembers ==
    \/ Connect("s1", "u1", TRUE)
    \/ RepoAddMember("u2", "fA")
    \/ UserAddedToFamily("s1", "fA", "u2")
    \/ MembersOf("fA", TRUE)
    \/ MembersReadBegin("fA")
    \/ \E op \in flight : MembersReadEnd(op)

SpecMembers == InitMembers /\ [][NextMembers]_vars

\* ghost mode: u1 is in fA and fB and s1 is its socket; it switches ghost mode
\* with any scope and family, and is_ghost is asked for it
InitGhost == InitState({<<"u1", "fA">>, <<"u1", "fB">>})

GhostScopes == {"global", "family", "other"}

NextGhost ==
    \/ Connect("s1", "u1", TRUE)
    \/ \E enabled \in BOOLEAN, scope \in GhostScopes, f \in Families \cup {NoFamily},
          rpcOk \in BOOLEAN :
          GhostMode("s1", enabled, scope, f, rpcOk)
    \/ \E f \in Families, rpcOk \in BOOLEAN, probeOk \in BOOLEAN :
          IsGhost("u1", f, rpcOk, probeOk)

SpecGhost == InitGhost /\ [][NextGhost]_vars

\* ghost mode read during a write: u1 is in fA and s1 is its socket; it
\* switches ghost mode, and is_ghost is asked for it in steps, so that a switch
\* can complete between the repository reads of is_ghost and its cache write
NextStale ==
    \/ Connect("s1", "u1", TRUE)
    \/ \E enabled \in BOOLEAN, scope \in Scopes, rpcOk \in BOOLEAN :
          GhostMode("s1", enabled, scope, "fA", rpcOk)
    \/ \E rpcOk \in BOOLEAN : IsGhostBegin("u1", "fA", rpcOk)
    \/ \E op \in flight : IsGhostProbe(op, TRUE)
    \/ \E op \in flight : IsGhostEnd(op)

SpecStale == InitMembers /\ [][NextStale]_vars

\* concurrent ingestion: s1 and s2 are sockets of u1, a member of fA; their
\* location_update handlers overlap; the samples differ
InitConcurrent == InitState({<<"u1", "fA">>})

ConcurrentLocs == {<<40000, -74000, 8, "55">>, <<40001, -74000, 8, "55">>}

NextConcurrent ==
    \/ \E s \in {"s1", "s2"} : Connect(s, "u1", TRUE)
    \/ \E s \in {"s1", "s2"}, loc \in ConcurrentLocs : IngestBegin(s, "fA", loc)
    \/ IngestAppend
    \/ \E op \in flight, publishOk \in BOOLEAN : IngestEnd(op, publishOk)
    \/ \E m \in bus : BusDeliver(m)

SpecConcurrent == InitConcurrent /\ [][NextConcurrent]_vars

\* delivery from startup on: the gateway has been constructed and afterInit
\* has started the subscriptions; s1 is u1's socket and s2 is u2's, both
\* members of fA; sockets stay connected; the instance's subscriber
\* connection delivers what it has received
InitDelivery == InitWith({<<"u1", "fA">>, <<"u2", "fA">>}, FALSE)

NextDelivery ==
    \/ Subscribe
    \/ Connect("s1", "u1", TRUE)
    \/ Connect("s2", "u2", TRUE)
    \/ \E s \in {"s1", "s2"}, loc \in IngestLocs, appendOk \in BOOLEAN,
          publishOk \in BOOLEAN : LocationUpdate(s, "fA", loc, appendOk, publishOk)
    \/ \E m \in bus : BusDeliver(m)
    \/ \E m \in bus : BusLost(m)

SpecDelivery ==
    /\ InitDelivery /\ [][NextDelivery]_vars
    /\ WF_vars(\E m \in bus : BusDeliver(m))
    /\ WF_vars(Subscribe)

\* order of one socket's verbs: s1 is u1's socket and s2 is u2's, both members
\* of fA; s1 sends ghost_mode (global) and location_update; the ghost_mode
\* handler awaits the repository
NextOrder ==
    \/ Connect("s1", "u1", TRUE)
    \/ Connect("s2", "u2", TRUE)
    \/ \E enabled \in BOOLEAN : GhostModeBegin("s1", enabled, "global", NoFamily)
    \/ \E op \in flight, rpcOk \in BOOLEAN : GhostModeEnd(op, rpcOk)
    \/ \E loc \in IngestLocs, appendOk \in BOOLEAN, publishOk \in BOOLEAN :
          LocationUpdate("s1", "fA", loc, appendOk, publishOk)
    \/ \E m \in bus : BusDeliver(m)

SpecOrder == InitIngest /\ [][NextOrder]_vars

\* handshakes: sockets s1 and s2 connect with any handshake of the set and
\* disconnect; u1 and u2 are members of fA
Headers ==
    {<<>>, <<"Bearer", "tok_u1">>, <<"Bearer", "tok_bad">>, <<"Bearer", "">>,
     <<"Basic", "tok_u1">>}

QueryTokens == {Null, Value("string", "tok_u2"), Value("array", "tok_u2")}

AuthTokens == {Null, Value("string", "tok_bad")}

Handshakes ==
    {Handshake(hd, q, a) : hd \in Headers, q \in QueryTokens, a \in AuthTokens}

NextHandshake ==
    \/ \E s \in {"s1", "s2"}, h \in Handshakes : handleConnection(s, h, TRUE)
    \/ \E s \in {"s1", "s2"} : Disconnect(s)

SpecHandshake == InitIngest /\ [][NextHandshake]_vars

\* verbs before OPEN: s1 connects as u1 in two steps and sends ping and
\* leave_family meanwhile and afterwards; s2 is u2's socket; both are members
\* of fA
NextOpen ==
    \/ ConnectBegin("s1", "u1")
    \/ \E op \in flight, repoOk \in BOOLEAN : ConnectEnd(op, repoOk)
    \/ \E op \in flight : PingAuthenticating(op)
    \/ \E op \in flight, f \in Families : LeaveFamilyAuthenticating(op, f)
    \/ Connect("s2", "u2", TRUE)
    \/ Ping("s1")
    \/ \E f \in Families : JoinFamily("s1", f)
    \/ \E s \in {"s1", "s2"} : Disconnect(s)

SpecOpen == InitIngest /\ [][NextOpen]_vars

\* the flag off: rows of fA come and go in the repository, another instance
\* leaves member lists in the shared cache, s1 (u1) reports additions, and the
\* member list of fA is read in one step; the repository answers
NextFlagOff ==
    \/ Connect("s1", "u1", TRUE)
    \/ RepoAddMember("u2", "fA")
    \/ RepoRemoveMember("u2", "fA")
    \/ \E members \in SUBSET Users : OtherInstanceCachesMembers("fA", members)
    \/ UserAddedToFamily("s1", "fA", "u2")
    \/ MembersOf("fA", TRUE)

SpecFlagOff == InitMembers /\ [][NextFlagOff]_vars

\* read-through: u1 is in fA, u2 is in no family at first; rows of u2 come and
\* go; member lists and family lists are read through the cache while the
\* repository answers or fails
NextReadThrough ==
    \/ RepoAddMember("u2", "fA")
    \/ RepoRemoveMember("u2", "fA")
    \/ \E f \in Families, repoOk \in BOOLEAN : MembersOf(f, repoOk)
    \/ \E u \in Users, repoOk \in BOOLEAN : FamiliesOf(u, repoOk)

SpecReadThrough == InitMembers /\ [][NextReadThrough]_vars

\* read-through with a failing store: as above, and the SETEX of a write-back
\* may fail
NextStore ==
    \/ RepoAddMember("u2", "fA")
    \/ RepoRemoveMember("u2", "fA")
    \/ \E f \in Families, repoOk \in BOOLEAN : MembersOf(f, repoOk)
    \/ \E u \in Users, repoOk \in BOOLEAN : FamiliesOf(u, repoOk)
    \/ \E f \in Families : MembersOfStoreFails(f)
    \/ \E u \in Users : FamiliesOfStoreFails(u)

SpecStore == InitMembers /\ [][NextStore]_vars

\* the log and the latest-location cache: s1 is u1's socket and s2 is u2's, both
\* members of fA; samples differ in place and in battery level, one carries no
\* battery level; latest locations and histories are read, cache entries expire
Batteries == {"0", "55", "100", NoBattery}

LogLocs == {<<c, -74000, 8, b>> : c \in {40000, 40001}, b \in Batteries}

NextLog ==
    \/ Connect("s1", "u1", TRUE)
    \/ Connect("s2", "u2", TRUE)
    \/ \E s \in {"s1", "s2"}, loc \in LogLocs, appendOk \in BOOLEAN :
         LocationUpdate(s, "fA", loc, appendOk, TRUE)
    \/ \E u \in Users, readOk \in BOOLEAN : GetUserLocation(u, "fA", readOk)
    \/ \E u \in Users : LastLocationExpires(u, "fA")
    \/ \E u \in {None, "u1"}, limit \in 1..MaxLimit : History("fA", u, limit, 0)
    \/ HistoryNext

SpecLog == InitIngest /\ [][NextLog]_vars

\* delivery with callbacks that throw: s1 is u1's socket and s2 is u2's, both
\* in fA; samples and alerts are published; cb1 and cb2 are callbacks
\* subscribed by name to the channel of the message
Callbacks == {"cb1", "cb2"}

NextThrowing ==
    \/ Connect("s1", "u1", TRUE)
    \/ Connect("s2", "u2", TRUE)
    \/ \E loc \in IngestLocs : LocationUpdate("s2", "fA", loc, TRUE, TRUE)
    \/ PublishAlert("fA")
    \/ \E u \in Users : PublishNotification(u)
    \/ \E m \in bus, callbacks \in SUBSET Callbacks, throwing \in SUBSET Callbacks,
          throwsParsed \in BOOLEAN, throwsRaw \in BOOLEAN :
            Deliver(m, callbacks, throwing, throwsParsed, throwsRaw)

SpecThrowing == InitIngest /\ [][NextThrowing]_vars

\* subscriptions by name: callbacks h1, h2, h3 subscribe to and unsubscribe from
\* channel c1 while the backend answers or fails; messages of c1 arrive
NextSubscribers ==
    \/ \E h \in Handlers : SubscribeBegin("c1", h)
    \/ \E op \in flight, ok \in BOOLEAN : SubscribeEnd(op, ok)
    \/ \E h \in Handlers \cup {None} : UnsubscribeBegin("c1", h)
    \/ \E op \in flight, ok \in BOOLEAN : UnsubscribeEnd(op, ok)
    \/ \E act \in Acts : ChannelMessage("c1", act)

SpecSubscribers == InitMembers /\ [][NextSubscribers]_vars

\* the guard: requests with every header of the set arrive while the verifier
\* is configured or not, reachable or not
AuthorizationHeaders ==
    {<<>>, <<"Bearer">>, <<"Bearer", "">>, <<"Bearer", "tok_u1">>,
     <<"Bearer", "tok_u2">>, <<"Bearer", "tok_bad">>, <<"bearer", "tok_u1">>,
     <<"Basic", "tok_u1">>, <<"Bearer", "tok_u1", "x">>}

NextGuard ==
    \E parts \in AuthorizationHeaders, configured \in BOOLEAN, available \in BOOLEAN,
       reachable \in BOOLEAN : GuardedRequest(parts, configured, available, reachable)

SpecGuard == InitMembers /\ [][NextGuard]_vars

\* sessions in steps: s1 and s2 are sockets of u1, a member of fA; connections
\* are handled in two steps and a socket can be closed in between
NextSessions ==
    \/ \E s \in {"s1", "s2"} : ConnectBegin(s, "u1")
    \/ \E op \in flight, repoOk \in BOOLEAN : ConnectEnd(op, repoOk)
    \/ \E op \in flight : DisconnectAuthenticating(op)
    \/ \E op \in flight, repoOk \in BOOLEAN : ConnectEndClosed(op, repoOk)
    \/ \E s \in {"s1", "s2"} : Disconnect(s)

SpecSessions == InitMembers /\ [][NextSessions]_vars

\* leaving: s1 is u1's socket (a member of fA alone), s2 is u2's (a member of fA
\* and fB); both join and leave rooms of either family
NextLeave ==
    \/ Connect("s1", "u1", TRUE)
    \/ Connect("s2", "u2", TRUE)
    \/ \E s \in {"s1", "s2"} : Ping(s)
    \/ \E s \in {"s1", "s2"}, f \in Families : JoinFamily(s, f)
    \/ \E s \in {"s1", "s2"}, f \in Families : LeaveFamily(s, f)

SpecLeave == Init /\ [][NextLeave]_vars

Next == SessionSteps \/ IngestSteps \/ GhostSteps \/ EventSteps \/ RepoSteps

Spec == Init /\ [][Next]_vars

\* ------------------------------------------------------------------ claims

\* a step in which a handler ran and acknowledged the verb
Handled(verb) == tick' # tick /\ last'.verb = verb

\* the coordinates are those maskLocation can make of loc
IsMasked(published, loc) ==
    \E d \in MaskOffsets :
       <<published[1], published[2], published[3]>> = maskLocation(loc, d[1], d[2])

\* C1: whenever an ingest publishes a location_update for user u in family f,
\* the published coordinates are masked (accuracy 1000, point displaced) if and
\* only if u's effective ghost mode for f is on at publish time, and otherwise
\* they are the submitted coordinates.
C1_MaskedIffGhost ==
    [][(Handled("location_update") \/ Handled("rest_location_update"))
          => \A m \in bus' \ bus :
                /\ IsMasked(m.loc, last'.loc) <=> effectiveGhost(m.user, m.fam)
                /\ ~effectiveGhost(m.user, m.fam) => m.loc = last'.loc]_vars

\* number of offline presence_update emissions for (u, f) to room family:<f>
OfflineCount(es, u, f) ==
    Cardinality({i \in 1..Len(es) :
        /\ es[i].event = "presence_update" /\ es[i].status = "offline"
        /\ es[i].user = u /\ es[i].room = f})

\* open sockets of u that have joined room family:<f>
JoinedSockets(u, f) == {t \in Sockets : sockUser[t] = u /\ f \in rooms[t]}

\* C2: if u holds n >= 1 open sockets joined to family f, closing one that is
\* not the last emits no offline presence_update for (u, f), and closing the
\* last one emits exactly one to room family:<f>.
C2_OfflineOnLastSocket ==
    [][Handled("disconnect")
          => LET s == last'.sock
                 u == sockUser[s]
             IN \A f \in rooms[s] :
                   OfflineCount(emits', u, f)
                     = IF Cardinality(JoinedSockets(u, f)) = 1 THEN 1 ELSE 0]_vars

\* C3: with the cache enabled, in every state (no handler is ever in flight
\* between two steps) the entry user:<u>:family:<f>:online is set if and only
\* if at least one open socket of u has joined room family:<f>.
C3_PresenceIsUnion ==
    cacheEnabled =>
       \A u \in Users, f \in Families :
          getOnlineStatus(cache, u, f) <=> JoinedSockets(u, f) # {}

\* C4: after an ingest of a sample of user u in family f has returned ok,
\* history(f, u, limit, "-") includes the appended sample for every limit >= 1.
C4_HistoryIncludesSample ==
    (last.verb \in {"location_update", "rest_location_update"} /\ last.ok)
       => LET f == last.fam
              e == log[f][Len(log[f])]
          IN \A limit \in 1..MaxLimit :
                e \in Range(getLocationHistory(log, f, last.target, limit, 0).locations)

\* the request's family_id is missing or not among the sender's familyIds
C5_Unauthorized ==
    /\ Handled("location_update")
    /\ last'.fam = NoFamily \/ last'.fam \notin sockFamilies[last'.sock]

FamilyVerbs ==
    {"join_family", "ghost_mode", "user_added_to_family", "user_removed_from_family",
     "family_deleted", "member_role_updated", "refresh_family_cache"}

\* a family verb (ghost_mode: scope family with a family_id) was handled for a
\* family that is not among the sender's familyIds
C6_Unauthorized ==
    /\ tick' # tick
    /\ last'.verb \in FamilyVerbs
    /\ last'.verb = "ghost_mode" => last'.target = "family"
    /\ last'.fam \in Families
    /\ last'.fam \notin sockFamilies[last'.sock]

\* C6: join_family, ghost_mode with scope family, user_added_to_family,
\* user_removed_from_family, family_deleted, member_role_updated and
\* refresh_family_cache for a family that is not in the sender's family_ids are
\* acknowledged {success:false, error:"Unauthorized family access"} and change
\* nothing: no cache key, no room membership, no emission, no session state.
C6_UnauthorizedChangesNothing ==
    [][C6_Unauthorized
          => /\ ~last'.ok /\ last'.error = "Unauthorized family access"
             /\ emits' = <<>>
             /\ UNCHANGED <<cache, sockVars, repoVars, log, bus>>]_vars

\* u1's socket was refused family_deleted for fB while u2's socket is in room
\* family:fB and the cache holds u2's family list, online key and ghost key
C6_Witness ==
    /\ last.verb = "family_deleted" /\ last.fam = "fB"
    /\ last.error = "Unauthorized family access"
    /\ "fB" \notin sockFamilies[last.sock] /\ sockUser[last.sock] = "u1"
    /\ "fB" \in rooms["s2"]
    /\ cacheEnabled
    /\ exists(cache, <<"families", "u2">>)
    /\ exists(cache, <<"online", "u2", "fB">>)
    /\ exists(cache, <<"ghost_family", "fB", "u2">>)
    /\ exists(cache, <<"role", "u2", "fB">>)
\* C7: a message published on family:<f>:location or family:<f>:alerts reaches
\* only sockets joined to room family:<f>, a socket is in room family:<f> only
\* if f is among the family_ids resolved at its authentication, and so no
\* socket receives a location_update or geofence_alert of a family that is not
\* in its family_ids.
C7_OnlyOwnFamilies ==
    /\ \A s \in Sockets : rooms[s] \subseteq sockFamilies[s]
    /\ \A i \in 1..Len(emits) :
          emits[i].event \in {"location_update", "geofence_alert"}
             => \A t \in emits[i].to :
                   /\ emits[i].fam \in rooms[t]
                   /\ emits[i].fam \in sockFamilies[t]
\* C8: after family_deleted(f) was acknowledged with success (and the repository
\* had deleted f), a location_update for f from a socket that authenticated
\* afterwards is rejected and appends nothing, and no broadcast addressed to
\* family f is delivered any more to a socket that was in room family:<f> at
\* the deletion.
C8_DeletedFamilyIsClosed ==
    [][/\ (Handled("location_update") /\ last'.fam \in authAfterDel[last'.sock])
            => (~last'.ok /\ UNCHANGED log)
       /\ Handled("bus_message")
            => \A i \in 1..Len(emits') :
                  emits'[i].fam \in deletedAck
                     => emits'[i].to \cap roomAtDeletion[emits'[i].fam] = {}]_vars

\* user_removed_from_family was handled for an authorized requester
C9_Removed ==
    /\ Handled("user_removed_from_family")
    /\ last'.fam \in sockFamilies[last'.sock]

C10_FamilyKeysDropped ==
    [][(Handled("family_deleted") /\ last'.ok)
          => LET f == last'.fam
             IN /\ ~exists(cache', <<"members", f>>)
                /\ ~exists(cache', <<"geofence", f>>)
                /\ \A m \in getFamilyMembers(cache, f, TRUE) :
                      /\ ~exists(cache', <<"role", m, f>>)
                      /\ ~exists(cache', <<"last_location", m, f>>)
                      /\ ~exists(cache', <<"online", m, f>>)
                      /\ ~exists(cache', <<"families", m>>)
                      /\ ~exists(cache', <<"ghost_family", f, m>>)]_vars
\* C11: once the repository holds v's row in f and user_added_to_family(f, v)
\* has returned success, every members_of(f) read that begins afterwards
\* returns a list containing v, also when other read-throughs of the member
\* list ran concurrently with the handler.
C11_AddedMemberIsListed ==
    [][Handled("members_of") => last'.acked \subseteq last'.members]_vars
\* C12: while u's global ghost mode is on (the last acknowledged
\* set_global_ghost(u, b) had b = true), is_ghost(u, f) answers enabled for
\* every family f of u.
C12_GlobalGhostIsEnabled ==
    [][\A u \in Users, f \in Families :
          ( /\ Handled("is_ghost") /\ last'.target = u /\ last'.fam = f
            /\ u \in repoGhostGlobal /\ <<u, f>> \in repoMembers )
          => last'.enabled]_vars

\* C13: when ghost:global:<u> holds "1", is_ghost(u, f) answers
\* {enabled, global} from the cache without querying the repository; when it
\* does not but ghost:family:<f>:<u> holds "1", it answers {enabled, family}
\* from the cache.
C13_AnsweredFromCache ==
    [][\A u \in Users, f \in Families :
          ( Handled("is_ghost") /\ last'.target = u /\ last'.fam = f )
          => /\ cache.ghostGlobal[u] = "1"
                => last'.enabled /\ last'.scope = "global" /\ ~last'.queried
             /\ ( cache.ghostGlobal[u] # "1" /\ cache.ghostFamily[<<f, u>>] = "1" )
                => last'.enabled /\ last'.scope = "family" /\ ~last'.queried]_vars
\* an ingest has been handled: a location_update that passed the family check,
\* or a POST /location/update
Ingested ==
    \/ Handled("location_update") /\ locationAuthorized(last'.sock, last'.fam)
    \/ Handled("rest_location_update")

\* C14: an ingest whose log append fails (the step appends nothing) is
\* acknowledged with success:false, and for that sample the latest-location
\* cache is not written and no location_update is published.
C14_AppendFailureFailsIngest ==
    [][(Ingested /\ log' = log)
          => (~last'.ok /\ cache' = cache /\ bus' = bus)]_vars

\* an authorized location_update of fA was refused while the log of fA is
\* still empty: its append failed
C14_Witness ==
    /\ last.verb = "location_update" /\ last.fam = "fA" /\ ~last.ok
    /\ last.sock \in Sockets /\ "fA" \in sockFamilies[last.sock]
    /\ cacheEnabled /\ log["fA"] = <<>>

\* C15: an ingest whose sample was appended to the log is acknowledged with
\* success, whatever happened to the latest-location write and the publish.
C15_AppendedIsAcknowledged ==
    [][(Ingested /\ log' # log) => last'.ok]_vars
\* the request just handled names no valid scope, or scope family without a
\* family_id
C16_Invalid ==
    \/ last'.target \notin {"global", "family"}
    \/ last'.target = "family" /\ last'.fam = NoFamily

\* C16: a ghost_mode request acknowledged with success has its value in the
\* repository (a failed repository write is never acknowledged as success); a
\* request acknowledged with success:false leaves the ghost cache entries
\* unchanged and broadcasts nothing; a request with a scope other than global
\* or family, or with scope family and no family_id, is refused the same way
\* and writes nothing to the repository either.
C16_FailedGhostWriteIsFatal ==
    [][Handled("ghost_mode") =>
         LET u == sockUser[last'.sock]
         IN /\ (last'.ok /\ last'.target = "global")
                  => (last'.enabled <=> u \in repoGhostGlobal')
            /\ (last'.ok /\ last'.target = "family")
                  => (last'.enabled <=> <<u, last'.fam>> \in repoGhostFamily')
            /\ ~last'.ok => (cache' = cache /\ emits' = <<>>)
            /\ C16_Invalid
                  => /\ ~last'.ok /\ last'.error = "Invalid ghost mode request"
                     /\ UNCHANGED <<repoGhostGlobal, repoGhostFamily>>]_vars

\* a ghost_mode request to switch global ghost mode off failed at the
\* repository while ghost:global:<u> held "1" and the sender was in a room
C16_Witness ==
    /\ last.verb = "ghost_mode" /\ ~last.ok /\ ~last.enabled
    /\ last.error = "Failed to update ghost mode" /\ last.target = "global"
    /\ cache.ghostGlobal["u1"] = "1" /\ "u1" \in repoGhostGlobal
    /\ "fA" \in rooms["s1"]
C18_IngestIsDelivered ==
    \A s \in Sockets, f \in Families :
        ( /\ last.verb = "location_update" /\ last.ok /\ last.fam = f
          /\ sockUser[s] # None /\ f \in rooms[s] )
        ~> (\E i \in 1..Len(emits) :
               /\ emits[i].event = "location_update" /\ emits[i].fam = f
               /\ s \in emits[i].to)
\* C19: the verbs of one socket take effect in arrival order: when a handler
\* of socket s applies its effects and acknowledges, every request of s that
\* is still awaiting a reply arrived later than the one acknowledged; in
\* particular no location_update of s is processed while an earlier
\* ghost_mode of s has not yet taken effect.
C19_VerbsInArrivalOrder ==
    [][\A s \in Sockets :
          (tick' # tick /\ last'.sock = s)
          => \A op \in flight \cap flight' :
                op.sock = s => \E d \in flight \ flight' :
                                  d.sock = s /\ d.seq < op.seq]_vars
\* the handshake carries no token that verifies, in none of the three places
C20_NoValidToken(h) ==
    /\ ~(Len(h.header) = 2 /\ h.header[1] = "Bearer"
            /\ h.header[2] \in {"tok_u1", "tok_u2"})
    /\ ~(h.query.t = "string" /\ h.query.v \in {"tok_u1", "tok_u2"})
    /\ ~(h.auth.t = "string" /\ h.auth.v \in {"tok_u1", "tok_u2"})

InboundVerbs ==
    {"location_update", "ping", "join_family", "leave_family", "ghost_mode",
     "user_added_to_family", "user_removed_from_family", "family_deleted",
     "member_role_updated", "refresh_family_cache"}

\* C21: a verb handled for a socket that is not OPEN (its handleConnection
\* has not finished, or it was rejected) is refused and has no effect: no
\* reply, no cache or presence write, no broadcast.
C21_VerbsOnlyWhenOpen ==
    [][\A s \in Sockets :
          (tick' # tick /\ last'.sock = s /\ last'.verb \in InboundVerbs
             /\ sockUser[s] = None)
          => (~last'.ok /\ emits' = <<>> /\ cache' = cache /\ rooms' = rooms)]_vars
\* C22: with the cache disabled, a members_of(f) read returns the rows the
\* repository holds at that moment, whatever the cache holds, and queries the
\* repository itself (so k reads are k queries); it writes no cache entry.
C22_FlagOffReadsRepository ==
    [][(Handled("members_of") /\ ~cacheEnabled)
          => /\ last'.queried
             /\ last'.members = {u \in Users : <<u, last'.fam>> \in repoMembers}
             /\ cache' = cache]_vars

\* with the cache disabled, a member list of fA that differs from the
\* repository's rows was in the cache when members_of(fA) was read
C22_Witness ==
    /\ ~cacheEnabled /\ last.verb = "members_of" /\ last.queried
    /\ cache.members["fA"] = {{"u1"}}
    /\ last.members = {"u1", "u2"}
\* C23: with the cache flag off no step writes or deletes a cache key, the
\* ghost:global and ghost:family entries included.
C23_FlagOffLeavesCacheAlone ==
    [][~cacheEnabled => cache' = cache]_vars
\* a members_of read behaves as a read-through: a hit returns the cached
\* list without a query; a miss answered by the repository returns its rows
\* and writes them to the cache; a miss on which the repository fails returns
\* the empty list and writes nothing
C24_MembersReadThrough ==
    Handled("members_of") =>
      LET f == last'.fam
          rows == {u \in Users : <<u, f>> \in repoMembers}
      IN IF cacheEnabled /\ cache.members[f] # {}
         THEN ~last'.queried /\ {last'.members} = cache.members[f] /\ cache' = cache
         ELSE IF last'.answered
         THEN /\ last'.members = rows
              /\ cache' = IF cacheEnabled THEN [cache EXCEPT !.members[f] = {rows}]
                          ELSE cache
         ELSE last'.members = {} /\ cache' = cache

\* the same for a families_of read; writeEmpty: an empty list loaded from the
\* repository is written back too
C24_FamiliesReadThrough(writeEmpty) ==
    Handled("families_of") =>
      LET u == last'.target
          ids == {f \in Families : <<u, f>> \in repoMembers}
      IN IF cacheEnabled /\ cache.families[u] # {}
         THEN ~last'.queried /\ {last'.members} = cache.families[u] /\ cache' = cache
         ELSE IF last'.answered
         THEN /\ last'.members = ids
              /\ cache' = IF cacheEnabled /\ (writeEmpty \/ ids # {})
                          THEN [cache EXCEPT !.families[u] = {ids}]
                          ELSE cache
         ELSE last'.members = {} /\ cache' = cache

EntriesOf(u, f) == SelectSeq(log[f], LAMBDA e : e.user_id = u)

\* C25: when the latest-location cache entry for (u, f) is missing and the log
\* of f holds at least one sample of u, the latest-location read returns the
\* most recent sample of u in that log, the one with the greatest log id,
\* whatever the length of the log.
C25_RecoversMostRecent ==
    [][(/\ Handled("user_location")
        /\ last'.error = "none"
        /\ cache.lastLoc[<<last'.target, last'.fam>>] = {}
        /\ Len(EntriesOf(last'.target, last'.fam)) > 0)
          => LET mine == EntriesOf(last'.target, last'.fam)
             IN /\ last'.loc[1] = mine[Len(mine)].loc[1]
                /\ last'.loc[2] = mine[Len(mine)].loc[2]
                /\ last'.loc[3] = mine[Len(mine)].loc[3]]_vars

\* C26: in every reachable state a non-empty latest-location cache entry for
\* (u, f) equals a sample that was appended to the log of f for u: the cache
\* never holds a location that was not first written to the log.
C26_CachedWasLogged ==
    \A u \in Users, f \in Families :
       \A l \in cache.lastLoc[<<u, f>>] :
          \E i \in 1..Len(log[f]) : log[f][i].user_id = u /\ log[f][i].loc = l

\* C27: history reports as last_id the id of the last log entry in the range
\* it read, so that continuing from the returned last_id moves past every page,
\* also past a page without an entry of u, and the calls end having returned
\* every entry of u: an answer whose last_id is the after_id it was asked with
\* leaves no entry of u behind it in the log.
C27_PagingReachesEveryEntry ==
    [][(Handled("history") /\ last'.lastId = last'.afterId)
          => \A i \in 1..Len(log[last'.fam]) :
                LET e == log[last'.fam][i]
                IN e.id > last'.afterId
                      => last'.target # None /\ e.user_id # last'.target]_vars

\* the battery level history and the recovery from the log are to report for
\* a log entry: the stored level, 100 for an entry without one
StoredBattery(e) == IF e.loc[4] = NoBattery THEN "100" ELSE e.loc[4]

\* C28: for every battery level b in 0..100 stored with a sample, history and
\* the recovery of the latest location from the log report exactly b for that
\* sample; 100 is reported only for an entry that has no battery field.
C28_BatteryLevelIsReported ==
    [][/\ Handled("history")
          => \A i \in 1..Len(last'.locations) :
                LET d == last'.locations[i]
                IN d.loc[4] = StoredBattery(log[last'.fam][d.id])
       /\ (/\ Handled("user_location")
           /\ cache.lastLoc[<<last'.target, last'.fam>>] = {}
           /\ last'.loc # NoLoc)
          => \E i \in 1..Len(log[last'.fam]) :
                LET e == log[last'.fam][i]
                IN /\ e.user_id = last'.target
                   /\ <<e.loc[1], e.loc[2], e.loc[3]>>
                         = <<last'.loc[1], last'.loc[2], last'.loc[3]>>
                   /\ last'.loc[4] = StoredBattery(e)]_vars

\* C29: every family log is soft-capped: after any sequence of ingests the log
\* locations:family:<f> has been trimmed to about the configured cap and does
\* not grow beyond it.
C29_LogIsCapped == \A f \in FamilyIds : Len(log[f]) <= maxLen

\* C30: an exception thrown by a subscriber callback while a message is
\* delivered, for a subscription by channel name and for one by pattern alike,
\* is logged and swallowed: it does not leave the delivery path, the
\* subscription stays, and every other callback registered for the message is
\* still invoked.
C30_CallbackErrorsAreSwallowed ==
    [][Handled("delivery")
          => /\ last'.error # "uncaught"
             /\ last'.logged = last'.thrown
             /\ last'.invoked = last'.registered
             /\ subscribed']_vars

\* C31: delivery of a message copies the channel's handler set before invoking
\* any handler: the handlers invoked for a message are exactly those registered
\* when its delivery began, even if a handler subscribes or unsubscribes a
\* handler of the same channel during the delivery.
C31_InvokedAreThoseRegistered ==
    [][Handled("channel_message") => last'.invoked = last'.registered]_vars

\* C39: a handler whose subscribe(channel, handler) has completed stays
\* registered, with the backend subscription of the channel active, until it
\* is unsubscribed, also when its subscribe overlaps the unsubscribe of the
\* last handler of the channel or follows a subscribe whose backend call failed.
\* (A backend subscription still being awaited by an earlier subscribe of the
\* channel counts as active.)
C39_SubscribedStaysRegistered ==
    \A p \in completed :
       /\ subscribers[p[1]].has
       /\ p[2] \in Range(subscribers[p[1]].cbs)
       /\ \/ p[1] \in backend
          \/ \E op \in flight : op.op = "subscribe" /\ op.fam = p[1]

\* C32: the HTTP auth guard rejects with Unauthorized every request that has no
\* Authorization header, whose scheme is not Bearer, whose token the verifier
\* rejects, or that arrives while no verifier is configured; the verified user
\* is attached to the request only when the guard lets the request through.
C32_GuardRejects ==
    [][Handled("guarded_request")
          => LET r == last'
             IN /\ (\/ r.parts = <<>>
                     \/ r.parts[1] # "Bearer"
                     \/ Len(r.parts) < 2
                     \/ verifyToken(r.parts[2]) = None
                     \/ ~r.verifier)
                      => ~r.ok /\ r.error = "Unauthorized"
                /\ r.target # None => r.ok /\ r.target = verifyToken(r.parts[2])]_vars

\* a request whose token the verifier would accept, sent under the scheme
\* Basic while the verifier is configured and reachable, has been rejected
C32_Witness ==
    /\ last.verb = "guarded_request"
    /\ last.parts = <<"Basic", "tok_u1">>
    /\ last.verifier /\ last.reachable
    /\ ~last.ok /\ last.target = None

\* C33: in every reachable state each socket id in connected_users[u] belongs to
\* a socket that is open and authenticated as u (and no user is mapped to an
\* empty set), also when a socket's disconnect is handled while its
\* handleConnection is suspended, and when a user's last disconnect overlaps a
\* new connection of the same user.
C33_ConnectedUsersAreOpen ==
    \A u \in Users : \A s \in connectedUsers[u] : sockUser[s] = u

\* C34: no inbound verb of a socket causes an event to reach room family:<f>, or
\* the presence entries of family f to change, unless f is in that socket's
\* family_ids; in particular leave_family for a family the socket is not a
\* member of emits no presence_update to its room and deletes no online key.
C34_VerbsTouchOwnFamiliesOnly ==
    [][(tick' # tick /\ last'.verb \in InboundVerbs /\ last'.sock \in Sockets)
          => \A f \in Families \ sockFamilies[last'.sock] :
                /\ \A i \in DOMAIN emits' : emits'[i].room = f => emits'[i].to = {}
                /\ {p \in cache'.online : p[2] = f} = {p \in cache.online : p[2] = f}]_vars


\* C35: a socket that user_removed_from_family or family_deleted made leave room
\* family:<f> does not get back into it while it stays open: its later
\* join_family or location_update for f is rejected as unauthorized, leaves the
\* socket out of the room and appends nothing to the log of f.
C35_ForceLeftStaysOut ==
    [][((Handled("join_family") \/ Handled("location_update"))
           /\ last'.fam \in forceLeft[last'.sock])
          => /\ ~last'.ok
             /\ last'.error = "Unauthorized family access"
             /\ last'.fam \notin rooms'[last'.sock]
             /\ log'[last'.fam] = log[last'.fam]]_vars


\* C36: once every ingest of (u1, fA) that had started has completed, and
\* before the entry expires, the latest-location cache entry of (u1, fA) holds
\* the sample with the greatest log id among u1's samples in the log of fA,
\* in whatever order the cache writes of overlapping ingests completed.
C36_CacheHoldsLatestSample ==
    (/\ cacheEnabled
     /\ IngestsInFlight(flight, "fA") = {}
     /\ Len(EntriesOf("u1", "fA")) > 0)
       => cache.lastLoc[<<"u1", "fA">>]
             = {EntriesOf("u1", "fA")[Len(EntriesOf("u1", "fA"))].loc}


\* C37: once set_global_ghost(u, false) or set_family_ghost(u, f, false) has
\* written its '0' for the flag, an is_ghost that completes afterwards does not
\* replace it: a read-through that read the repository before the write does
\* not write back a stale '1'.
C37_NoStaleWriteBack ==
    [][Handled("is_ghost")
         => /\ \A u \in Users :
                 cache.ghostGlobal[u] = "0" => cache'.ghostGlobal[u] = "0"
            /\ \A u \in Users, f \in Families :
                 cache.ghostFamily[<<f, u>>] = "0"
                    => cache'.ghostFamily[<<f, u>>] = "0"]_vars


\* C38: a members_of or families_of read that queried the repository and got
\* its answer returns the rows of that answer, whether or not the write-back
\* to the cache succeeded.
C38_StoreFailureKeepsRows ==
    [][/\ (Handled("members_of") /\ last'.queried /\ last'.answered)
            => last'.members = {u \in Users : <<u, last'.fam>> \in repoMembers}
       /\ (Handled("families_of") /\ last'.queried /\ last'.answered)
            => last'.members = {f \in Families : <<last'.target, f>> \in repoMembers}]_vars

====
